---- MODULE Spec2Model ----
(***************************************************************************)
(* Archetype-based ECS world of gengarneko/sadim: type registry, archetype *)
(* codec, column-major tables, table registry, entity manager staging and  *)
(* flush, queries, and the Storage registry of the core world.             *)
(***************************************************************************)
EXTENDS Integers, Sequences, FiniteSets, TLC

VARIABLES
    components,        \* World.components: registered component types, index = componentId
    tables,            \* World.tables: sequence of Table objects
    archetypeToTable,  \* World._archetypeToTable: archetype -> table id
    emitted,           \* tables passed to the createTable listeners / onTableUpdated.emit
    nextId,            \* EntityState.nextId
    loc,               \* Entity.location of every handle created so far
    destinations,      \* EntityState.destinations (a Map: insertion-ordered entries)
    pending,           \* EntityState.pending
    queries,           \* the Query objects constructed so far
    calls,             \* number of API calls made so far
    despawned,         \* history: the handles Entities.despawn has been called on
    sTables,           \* Storage._tables
    sNextTableId,      \* Storage._nextTableId
    sArchToId,         \* Storage._archetypeToTableId
    timing,            \* World.config.entityUpdateTiming
    hasStarted,        \* World._hasStarted
    systems,           \* Schedule._systems of every schedule of the world
    tasks,             \* the World.run() calls made so far and where each one stands
    log,               \* history: what the run calls did, in order
    subscribers,       \* EventBus._subscribers
    invoked,           \* the callbacks the last emit invoked, in order
    busOps,            \* history: the calls made on the event bus
    emission,          \* the EventBus.emit() call in progress, callback by callback
    resources,         \* World.resources
    fromWorldCalls,    \* getResource calls awaiting fromWorld(): the type of each
    returned,          \* what the last getResource call that settled resolved to
    resOps,            \* history: the resource calls and their continuations
    pluginPromises,    \* the promises plugins returned -> "pending", "fulfilled", "rejected"
    pendingPlugins,    \* World._pendingPlugins
    prep,              \* the prepare() call: where it is and what it awaits
    hasResult,         \* the last Entities.has call and what it returned
    getResult,         \* the last Query.get call and what it returned
    spawnedWith,       \* history: the components each entity was spawned with
    schSystems,        \* Schedule._systems of a schedule used on its own
    schArgs,           \* Schedule._args
    schPrep,           \* the Schedule.prepare() call in progress
    schRun,            \* the Schedule.run() call in progress
    schLog,            \* history: the invocations of the last Schedule.run()
    meta,              \* v3 Entities.#meta
    allocPending,      \* v3 Entities.#pending
    freelist,          \* v3 Entities.#freelist
    handed,            \* history: the handles alloc() has returned
    allocLast,         \* the last call on the allocator and its result
    freeLog,           \* history: the valid handles freed, ever and since the last flush
    built,             \* history: what the query under study was constructed from
    startListeners,    \* World._listeners.start
    startInvoked,      \* the listeners the last World.start() invoked, in order
    otherComponents,   \* World.components of a second World instance
    componentMasks,    \* COMPONENT_MASKS, the module-level cache of v2 Entities
    lastMask           \* history: the last getComponentMask call and its result

vars == <<components, tables, archetypeToTable, emitted, nextId, loc,
          destinations, pending, queries, calls, despawned,
          sTables, sNextTableId, sArchToId,
          timing, hasStarted, systems, tasks, log,
          subscribers, invoked, busOps, emission,
          resources, fromWorldCalls, returned, resOps,
          pluginPromises, pendingPlugins, prep,
          hasResult, getResult, spawnedWith,
          schSystems, schArgs, schPrep, schRun, schLog,
          meta, allocPending, freelist, handed, allocLast, freeLog, built,
          startListeners, startInvoked,
          otherComponents, componentMasks, lastMask>>

worldVars == <<components, tables, archetypeToTable, emitted, nextId, loc,
               destinations, pending, queries>>

storageVars == <<sTables, sNextTableId, sArchToId>>

runVars == <<timing, hasStarted, systems, tasks, log>>

\* what the entity manager, the registry and Storage never touch
busVars == <<subscribers, invoked, busOps, emission>>

resVars == <<resources, fromWorldCalls, returned, resOps>>

pluginVars == <<pluginPromises, pendingPlugins, prep>>

readVars == <<hasResult, getResult, spawnedWith>>

schedRunVars == <<schRun, schLog>>

schedVars == <<schSystems, schArgs, schPrep, schedRunVars>>

\* the state of the parts modelled on their own
allocVars == <<meta, allocPending, freelist, handed, allocLast, freeLog>>

filterVars == <<built>>

listenerVars == <<startListeners, startInvoked>>

maskVars == <<otherComponents, componentMasks, lastMask>>

moreVars == <<schedVars, allocVars, filterVars, listenerVars, maskVars>>

otherVars == <<runVars, busVars, resVars, pluginVars, readVars, moreVars>>

----------------------------------------------------------------------------
(* Bounds *)

MaxEntities == 3
MaxVal == 2
MaxCalls == 5
MaxStorageTables == 4

----------------------------------------------------------------------------
(* Component types and values *)

EntityType == "Entity"
UserTypes == {"P", "T"}
AllTypes == {EntityType} \cup UserTypes

\* component.ts: a type is sized unless it carries the static IS_ZST marker
isSizedComponent(t) == t # "T"

Undef == [type |-> "undefined", v |-> 0]
EntityVal(e) == [type |-> EntityType, v |-> e]
PVal(n) == [type |-> "P", v |-> n]

NumBits == Cardinality(AllTypes)
Archetypes == 0 .. (2 ^ NumBits - 1)

----------------------------------------------------------------------------
(* bigint bit operations on non-negative archetypes *)

Bit(a, i) == (a \div (2 ^ i)) % 2

RECURSIVE BitAndUpTo(_, _, _)
BitAndUpTo(a, b, i) ==
    IF i < 0 THEN 0
    ELSE (2 ^ i) * (Bit(a, i) * Bit(b, i)) + BitAndUpTo(a, b, i - 1)

BitAnd(a, b) == BitAndUpTo(a, b, NumBits - 1)

RECURSIVE BitOrUpTo(_, _, _)
BitOrUpTo(a, b, i) ==
    IF i < 0 THEN 0
    ELSE (2 ^ i) * (IF Bit(a, i) + Bit(b, i) > 0 THEN 1 ELSE 0)
         + BitOrUpTo(a, b, i - 1)

BitOr(a, b) == BitOrUpTo(a, b, NumBits - 1)

\* a & ~m for non-negative a and m
BitAndNot(a, m) == a - BitAnd(a, m)

\* a ^ 1n
XorOne(a) == IF Bit(a, 0) = 1 THEN a - 1 ELSE a + 1

----------------------------------------------------------------------------
(* JavaScript arrays: a column is the indexed elements plus the value of   *)
(* the non-index property "-1", which array[-1] reads and writes.          *)

NewColumn == [items |-> <<>>, neg1 |-> Undef]

ArrLen(col) == Len(col.items)

ArrGet(col, i) ==
    IF i = -1 THEN col.neg1
    ELSE IF i >= 0 /\ i < Len(col.items) THEN col.items[i + 1]
    ELSE Undef

ArrSet(col, i, val) ==
    IF i = -1 THEN [col EXCEPT !.neg1 = val]
    ELSE IF i < Len(col.items) THEN [col EXCEPT !.items[i + 1] = val]
    ELSE [col EXCEPT !.items =
            [k \in 1 .. (i + 1) |->
                IF k <= Len(col.items) THEN col.items[k]
                ELSE IF k = i + 1 THEN val ELSE Undef]]

ArrPush(col, val) == [col EXCEPT !.items = Append(col.items, val)]

ArrPop(col) ==
    IF Len(col.items) = 0 THEN col
    ELSE [col EXCEPT !.items = SubSeq(col.items, 1, Len(col.items) - 1)]

\* Array.prototype.indexOf on a sequence of types; -1 when absent, else 0-based
IndexOf(seq, x) ==
    LET hits == {k \in 1 .. Len(seq) : seq[k] = x}
    IN IF hits = {} THEN -1
       ELSE (CHOOSE k \in hits : \A j \in hits : k <= j) - 1

\* swapRemove(array, index)
swapRemove(col, index) ==
    LET temp == ArrGet(col, index)
        last == ArrGet(col, ArrLen(col) - 1)
        c1 == IF last # Undef THEN ArrSet(col, index, last) ELSE col
    IN [col |-> ArrPop(c1), removed |-> temp]

----------------------------------------------------------------------------
(* Type registry and archetype codec *)

\* World.getComponentId: existing id, or append and return the new index
RegisterType(comps, t) == IF IndexOf(comps, t) # -1 THEN comps ELSE Append(comps, t)

getComponentId(comps, t) == IndexOf(RegisterType(comps, t), t)

RECURSIVE RegisterAll(_, _)
RegisterAll(comps, ts) ==
    IF Len(ts) = 0 THEN comps
    ELSE RegisterAll(RegisterType(comps, Head(ts)), Tail(ts))

\* World.getArchetype(...types): bit 0 plus one bit per type
RECURSIVE getArchetypeFrom(_, _, _)
getArchetypeFrom(comps, ts, acc) ==
    IF Len(ts) = 0 THEN acc
    ELSE LET c2 == RegisterType(comps, Head(ts))
         IN getArchetypeFrom(c2, Tail(ts), BitOr(acc, 2 ^ IndexOf(c2, Head(ts))))

getArchetype(comps, ts) == getArchetypeFrom(comps, ts, 1)

\* decodeArchetype(components, archetype)
RECURSIVE decodeFrom(_, _, _)
decodeFrom(comps, remainingBits, componentIndex) ==
    IF remainingBits = 0 THEN <<>>
    ELSE LET rest == decodeFrom(comps, remainingBits \div 2, componentIndex + 1)
         IN IF remainingBits % 2 = 1 /\ componentIndex + 1 <= Len(comps)
            THEN <<comps[componentIndex + 1]>> \o rest
            ELSE rest

decodeArchetype(comps, archetype) == decodeFrom(comps, archetype, 0)

----------------------------------------------------------------------------
(* Table *)

SelectSized(ts) == SelectSeq(ts, isSizedComponent)

\* new Table(id, archetype, components)
NewTable(id, archetype, comps) ==
    [id |-> id,
     archetype |-> archetype,
     comps |-> SelectSized(comps),
     cols |-> [k \in 1 .. Len(comps) |-> NewColumn]]

hasColumn(t, type) == IndexOf(t.comps, type) # -1

\* index into _columns used by getColumn(type); -1 reads _columns[-1] (undefined)
ColumnIndex(t, type) == IndexOf(t.comps, type)

\* Table.length
TableLength(t) == IF Len(t.cols) > 0 THEN ArrLen(t.cols[1]) ELSE 0

----------------------------------------------------------------------------
(* Table.move *)

\* Entity.setLocation({tableRow: row}) on handle e; a negative row trips DEV_ASSERT
setLocationThrows(row) == row < 0

setRow(locs, e, row) == [locs EXCEPT ![e].tableRow = row]

NoFinal == [x \in {} |-> Undef]

\* move, same-table branch: overwrite column[row] for every component with a column
RECURSIVE updateInPlace(_, _, _, _)
updateInPlace(tbls, ti, row, comps) ==
    IF Len(comps) = 0 THEN tbls
    ELSE LET component == Head(comps)
             columnIndex == IndexOf(tbls[ti].comps, component.type)
             t2 == IF columnIndex # -1
                   THEN [tbls EXCEPT ![ti].cols[columnIndex + 1] =
                            ArrSet(tbls[ti].cols[columnIndex + 1], row, component)]
                   ELSE tbls
         IN updateInPlace(t2, ti, row, Tail(comps))

\* move, step 1: swap-remove row from every sized column of the source, fix the
\* back-filled entity's row, keep what the target has a column for
RECURSIVE collectExisting(_, _, _, _, _)
collectExisting(st, si, ti, row, i) ==
    IF st.threw \/ i > Len(st.tables[si].comps) THEN st
    ELSE LET componentType == st.tables[si].comps[i]
             r == swapRemove(st.tables[si].cols[i], row)
             tbl1 == [st.tables EXCEPT ![si].cols[i] = r.col]
             backfilled == ArrGet(r.col, row)
             fix == componentType = EntityType /\ backfilled # Undef
             st1 == IF r.removed = Undef
                    THEN [st EXCEPT !.tables = tbl1]
                    ELSE IF fix /\ setLocationThrows(row)
                    THEN [st EXCEPT !.tables = tbl1, !.threw = TRUE]
                    ELSE [st EXCEPT
                            !.tables = tbl1,
                            !.loc = IF fix THEN setRow(st.loc, backfilled.v, row)
                                    ELSE st.loc,
                            !.final = IF hasColumn(st.tables[ti], componentType)
                                      THEN (componentType :> r.removed) @@ st.final
                                      ELSE st.final]
         IN collectExisting(st1, si, ti, row, i + 1)

\* move, step 2: new components override what was carried over
RECURSIVE collectNew(_, _, _)
collectNew(final, target, comps) ==
    IF Len(comps) = 0 THEN final
    ELSE LET component == Head(comps)
             f2 == IF hasColumn(target, component.type)
                   THEN (component.type :> component) @@ final
                   ELSE final
         IN collectNew(f2, target, Tail(comps))

\* move, step 3: push every collected component onto its target column
pushFinal(target, final) ==
    [target EXCEPT !.cols =
        [k \in 1 .. Len(target.cols) |->
            IF k <= Len(target.comps) /\ target.comps[k] \in DOMAIN final
            THEN ArrPush(target.cols[k], final[target.comps[k]])
            ELSE target.cols[k]]]

\* the row move returns for the target: the length of its Entity column before the push
newRowOf(target) ==
    LET entityIndex == ColumnIndex(target, EntityType)
    IN IF entityIndex = -1 THEN 0 ELSE ArrLen(target.cols[entityIndex + 1])

\* move, cross-table branch after step 1 ended in st: steps 2 and 3 and the location
\* returned, or the state the throw of setLocation leaves behind
moveCollected(tbls, si, row, ti, comps, st) ==
    IF st.threw
    THEN [tables |-> st.tables, loc |-> st.loc,
          location |-> [tableId |-> tbls[si].id, tableRow |-> row],
          threw |-> TRUE]
    ELSE [tables |-> [st.tables EXCEPT ![ti] =
                        pushFinal(st.tables[ti], collectNew(st.final, tbls[ti], comps))],
          loc |-> st.loc,
          location |-> [tableId |-> tbls[ti].id, tableRow |-> newRowOf(tbls[ti])],
          threw |-> FALSE]

\* Table.prototype.move({row, targetTable, components}); si, ti are positions of the
\* source and target objects in tbls, identity is position
move(tbls, locs, si, row, ti, comps) ==
    IF si = ti
    THEN [tables |-> updateInPlace(tbls, si, row, comps),
          loc |-> locs,
          location |-> [tableId |-> tbls[si].id, tableRow |-> row],
          threw |-> FALSE]
    ELSE moveCollected(tbls, si, row, ti, comps,
            collectExisting(
                [tables |-> tbls, loc |-> locs, final |-> NoFinal, threw |-> FALSE],
                si, ti, row, 1))

----------------------------------------------------------------------------
(* Query and filters *)

None == [op |-> "None", types |-> <<>>, children |-> <<>>]
With(ts) == [op |-> "With", types |-> ts, children |-> <<>>]
Without(ts) == [op |-> "Without", types |-> ts, children |-> <<>>]
And(fs) == [op |-> "And", types |-> <<>>, children |-> fs]
Or(fs) == [op |-> "Or", types |-> <<>>, children |-> fs]

Acc(t) == [type |-> t, maybe |-> FALSE]
Maybe(t) == [type |-> t, maybe |-> TRUE]

\* the queries a program constructs: accessor list, single-accessor form, filter
QueryCatalog ==
    [qP     |-> [accessors |-> <<Acc("P")>>, individual |-> TRUE, filter |-> None],
     qMaybe |-> [accessors |-> <<Acc(EntityType), Maybe("P")>>, individual |-> FALSE,
                 filter |-> None],
     qNoT   |-> [accessors |-> <<Acc("P")>>, individual |-> TRUE,
                 filter |-> Without(<<"T">>)]]

QueryIds == DOMAIN QueryCatalog

\* With.execute / Without.execute on the flat (require, forbid) list; both call
\* world.getArchetype, which registers the listed types
executeLeaf(f, current, comps) ==
    LET a == getArchetype(comps, f.types)
    IN [k \in 1 .. Len(current) |->
            IF f.op = "With" /\ k % 2 = 1 THEN BitOr(current[k], a)
            ELSE IF f.op = "Without" /\ k % 2 = 0 THEN BitOr(current[k], XorOne(a))
            ELSE current[k]]

RECURSIVE execute(_, _, _)
RECURSIVE executeAnd(_, _, _, _)
RECURSIVE executeOr(_, _, _, _)

\* an Or that threads the list through its children as And does
executeOrAsAnd(children, i, current, comps) == executeAnd(children, i, current, comps)

\* Or.execute: children.flatMap(filter => filter.execute(current))
executeOr(children, i, current, comps) ==
    IF i > Len(children) THEN <<>>
    ELSE execute(children[i], current, comps) \o executeOr(children, i + 1, current, comps)

\* And.execute: children.reduce((acc, filter) => filter.execute(acc), current)
executeAnd(children, i, current, comps) ==
    IF i > Len(children) THEN current
    ELSE executeAnd(children, i + 1, execute(children[i], current, comps), comps)

\* Filter.execute; comps is the registry with the types of the tree registered in
\* the order the leaves are executed
execute(f, current, comps) ==
    IF f.op = "None" THEN current
    ELSE IF f.op = "And" THEN executeAnd(f.children, 1, current, comps)
    ELSE IF f.op = "Or" THEN executeOr(f.children, 1, current, comps)
    ELSE executeLeaf(f, current, comps)

\* whether execute(f, current) is non-empty, given whether current is; the map
\* callback of a leaf, and with it getArchetype, runs only on a non-empty list
RECURSIVE Yields(_, _)
RECURSIVE YieldsAnd(_, _, _)
YieldsAnd(children, i, live) ==
    IF i > Len(children) THEN live
    ELSE YieldsAnd(children, i + 1, Yields(children[i], live))

Yields(f, live) ==
    IF f.op = "And" THEN YieldsAnd(f.children, 1, live)
    ELSE IF f.op = "Or" THEN \E i \in 1 .. Len(f.children) : Yields(f.children[i], live)
    ELSE live

\* the types the leaves of a filter tree hand to getArchetype, in the order they
\* are executed
RECURSIVE FilterTypes(_, _)
RECURSIVE FilterTypesAnd(_, _, _)
RECURSIVE FilterTypesOr(_, _, _)
FilterTypesAnd(children, i, live) ==
    IF i > Len(children) THEN <<>>
    ELSE FilterTypes(children[i], live)
            \o FilterTypesAnd(children, i + 1, Yields(children[i], live))

FilterTypesOr(children, i, live) ==
    IF i > Len(children) THEN <<>>
    ELSE FilterTypes(children[i], live) \o FilterTypesOr(children, i + 1, live)

FilterTypes(f, live) ==
    IF f.op = "And" THEN FilterTypesAnd(f.children, 1, live)
    ELSE IF f.op = "Or" THEN FilterTypesOr(f.children, 1, live)
    ELSE IF live THEN f.types
    ELSE <<>>

\* a _testArchetype that drops the exclusion mask of each filter pair
RECURSIVE testPairsIgnoringWithout(_, _, _)
testPairsIgnoringWithout(filters, archetype, i) ==
    IF i > Len(filters) THEN FALSE
    ELSE IF BitAnd(filters[i], archetype) = filters[i] THEN TRUE
         ELSE testPairsIgnoringWithout(filters, archetype, i + 2)

\* Query._testArchetype
RECURSIVE testPairs(_, _, _)
testPairs(filters, archetype, i) ==
    IF i > Len(filters) THEN FALSE
    ELSE IF BitAnd(filters[i], archetype) = filters[i]
            /\ BitAnd(filters[i + 1], archetype) = 0
         THEN TRUE
         ELSE testPairs(filters, archetype, i + 2)

testArchetype(q, archetype) == testPairs(q.filters, archetype, 1)

EmptyRef == [t |-> -1, c |-> 0]
ColRef(table, type) == [t |-> table.id, c |-> ColumnIndex(table, type) + 1]

\* Query.matchTable: Entity column, then one column (or EMPTY_COLUMN) per accessor
matchTable(q, table) ==
    IF ~testArchetype(q, table.archetype) THEN q
    ELSE [q EXCEPT !.cols =
            q.cols \o <<ColRef(table, EntityType)>> \o
            [k \in 1 .. Len(q.components) |->
                IF hasColumn(table, q.components[k])
                THEN ColRef(table, q.components[k])
                ELSE EmptyRef]]

RECURSIVE matchTables(_, _, _)
matchTables(q, tbls, i) ==
    IF i > Len(tbls) THEN q
    ELSE matchTables(matchTable(q, tbls[i]), tbls, i + 1)

\* an accessor list read as if Maybe were not a marker
RequiredTypesWithMaybe(accessors) == [k \in 1 .. Len(accessors) |-> accessors[k].type]

\* the accessors that are not wrapped in Maybe
RequiredTypes(accessors) ==
    LET req == SelectSeq(accessors, LAMBDA x : ~x.maybe)
    IN [k \in 1 .. Len(req) |-> req[k].type]

\* the registry after the Query constructor: required accessors, then the filter
ComponentsAfterQuery(comps, d) ==
    RegisterAll(RegisterAll(comps, RequiredTypes(d.accessors)), FilterTypes(d.filter, TRUE))

\* the query before it has looked at any table; born is history, the number of
\* tables the world held at construction
BlankQuery(d, comps, tbls) ==
    LET initial == getArchetype(comps, RequiredTypes(d.accessors))
        c1 == ComponentsAfterQuery(comps, d)
    IN [components |-> [k \in 1 .. Len(d.accessors) |-> d.accessors[k].type],
        individual |-> d.individual,
        filters |-> execute(d.filter, <<initial, 0>>, c1),
        cols |-> <<>>,
        born |-> Len(tbls)]

\* a constructor that leaves the existing tables to later notifications
NewQueryNotMatchingExisting(d, comps, tbls) == BlankQuery(d, comps, tbls)

\* Query constructor
NewQuery(d, comps, tbls) == matchTables(BlankQuery(d, comps, tbls), tbls, 1)

\* the array a column reference of a query aliases
RefColumn(tbls, ref) ==
    IF ref.t = -1 \/ ref.c = 0 THEN NewColumn ELSE tbls[ref.t + 1].cols[ref.c]

GroupSpan(q) == Len(q.components) + 1
GroupStarts(q) == {g \in 1 .. Len(q.cols) : (g - 1) % GroupSpan(q) = 0}

\* Query.length
QueryLength(q, tbls) ==
    LET RECURSIVE sum(_)
        sum(g) == IF g > Len(q.cols) THEN 0
                  ELSE ArrLen(RefColumn(tbls, q.cols[g])) + sum(g + GroupSpan(q))
    IN sum(1)

\* Query[Symbol.iterator]: the yielded elements, each tagged with the column group
\* and row it was read from
Iterate(q, tbls) ==
    LET rowsOf(g) ==
            [r \in 1 .. ArrLen(RefColumn(tbls, q.cols[g])) |->
                [table |-> q.cols[g].t,
                 row |-> r - 1,
                 elements |-> [o \in 1 .. Len(q.components) |->
                                 ArrGet(RefColumn(tbls, q.cols[g + o]), r - 1)]]]
        RECURSIVE groups(_)
        groups(g) == IF g > Len(q.cols) THEN <<>>
                     ELSE rowsOf(g) \o groups(g + GroupSpan(q))
    IN groups(1)

\* an inner loop that skips only the rows before the outer one
RECURSIVE pairsInnerFromSelf(_, _, _, _)
pairsInnerFromSelf(ys, i, m, j) ==
    IF m > Len(ys) THEN <<>>
    ELSE IF i < j THEN pairsInnerFromSelf(ys, i, m + 1, j)
    ELSE <<[first |-> ys[i + 1], second |-> ys[m]]>>
            \o pairsInnerFromSelf(ys, i, m + 1, j + 1)

\* Query.pairs, the inner loop: iter1 is the i-th element (from 0), iter2 the m-th
\* (from 1); j counts the pairs yielded for iter1 and is not advanced by continue
RECURSIVE pairsInner(_, _, _, _)
pairsInner(ys, i, m, j) ==
    IF m > Len(ys) THEN <<>>
    ELSE IF i <= j THEN pairsInner(ys, i, m + 1, j)
    ELSE <<[first |-> ys[i + 1], second |-> ys[m]]>> \o pairsInner(ys, i, m + 1, j + 1)

\* Query.pairs, the outer loop
RECURSIVE pairsOuter(_, _)
pairsOuter(ys, i) ==
    IF i >= Len(ys) THEN <<>>
    ELSE pairsInner(ys, i, 1, 0) \o pairsOuter(ys, i + 1)

\* Query.pairs: each yielded pair, its members tagged with the rows they were read from
pairs(q, tbls) == pairsOuter(Iterate(q, tbls), 0)

----------------------------------------------------------------------------
(* World.getTable *)

TableCreated(w, archetype) ==
    LET table == NewTable(Len(w.tables), archetype,
                          decodeArchetype(w.components, archetype))
    IN [w EXCEPT
          !.tables = Append(w.tables, table),
          !.archetypeToTable = (archetype :> table.id) @@ w.archetypeToTable,
          !.emitted = Append(w.emitted, table.id),
          !.queries = [q \in DOMAIN w.queries |-> matchTable(w.queries[q], table)]]

\* a getTable that constructs a table without consulting the registry
getTableWithoutLookup(w, archetype) == TableCreated(w, archetype)

\* a getTable that also emits the event for a table that is already registered
getTableAlwaysEmitting(w, archetype) ==
    IF archetype \in DOMAIN w.archetypeToTable
    THEN [w EXCEPT !.emitted = Append(w.emitted, w.archetypeToTable[archetype])]
    ELSE TableCreated(w, archetype)

\* w is the record of the world fields getTable reads and writes
getTable(w, archetype) ==
    IF archetype \in DOMAIN w.archetypeToTable THEN w
    ELSE TableCreated(w, archetype)

----------------------------------------------------------------------------
(* Entity manager (EntityState and Entities) *)

Entities == 0 .. (nextId - 1)

World == [components |-> components, tables |-> tables,
          archetypeToTable |-> archetypeToTable, emitted |-> emitted,
          queries |-> queries]

StagedIndex(dests, e) ==
    LET hits == {k \in 1 .. Len(dests) : dests[k].e = e}
    IN IF hits = {} THEN 0 ELSE CHOOSE k \in hits : TRUE

\* EntityState.getDestination; Absent stands for undefined
Absent == -1
getDestination(dests, e) ==
    LET k == StagedIndex(dests, e)
    IN IF k = 0 THEN Absent ELSE dests[k].a

\* EntityState.setDestination: Map.set keeps the position of an existing key
setDestination(dests, e, destination) ==
    LET k == StagedIndex(dests, e)
    IN IF k = 0 THEN Append(dests, [e |-> e, a |-> destination])
       ELSE [dests EXCEPT ![k].a = destination]

\* Entities.getTableArchetype
getTableArchetype(tbls, locs, e) == tbls[locs[e].tableId + 1].archetype

\* Entities.getEntityArchetype: destination ?? table archetype (0n is not nullish)
getEntityArchetype(dests, tbls, locs, e) ==
    LET destination == getDestination(dests, e)
    IN IF destination # Absent THEN destination
       ELSE getTableArchetype(tbls, locs, e)

\* Entities.getComponentMask without isRemove
getComponentMask(comps, type) == 2 ^ getComponentId(comps, type)

TypesOf(cs) == [k \in 1 .. Len(cs) |-> cs[k].type]

SpawnPayloads == {<<>>} \cup {<<PVal(n)>> : n \in 1 .. MaxVal}

\* Entities.spawn(components)
Spawn(cs) ==
    /\ nextId < MaxEntities
    /\ LET entity == nextId
           mask == getArchetypeFrom(components, TypesOf(cs), 1)
       IN /\ nextId' = nextId + 1
          /\ loc' = (entity :> [tableId |-> 0, tableRow |-> 0]) @@ loc
          /\ components' = RegisterAll(components, TypesOf(cs))
          /\ destinations' = setDestination(destinations, entity, mask)
          /\ pending' = (entity :> (<<EntityVal(entity)>> \o cs)) @@ pending
    /\ UNCHANGED <<tables, archetypeToTable, emitted, queries>>

\* a despawn that moves the entity to the sentinel table at once instead of staging
DespawnEagerly(e) ==
    /\ e \in Entities
    /\ \E m \in {move(tables, loc, loc[e].tableId + 1, loc[e].tableRow, 1, <<>>)} :
          /\ tables' = m.tables
          /\ loc' = IF m.threw THEN m.loc ELSE [m.loc EXCEPT ![e] = m.location]
    /\ pending' = IF e \in DOMAIN pending THEN [pending EXCEPT ![e] = <<>>] ELSE pending
    /\ despawned' = despawned \cup {e}
    /\ UNCHANGED <<components, archetypeToTable, emitted, nextId, destinations, queries>>

\* Entities.despawn(entity)
Despawn(e) ==
    /\ e \in Entities
    /\ destinations' = setDestination(destinations, e, 0)
    /\ pending' = IF e \in DOMAIN pending THEN [pending EXCEPT ![e] = <<>>] ELSE pending
    /\ despawned' = despawned \cup {e}
    /\ UNCHANGED <<components, tables, archetypeToTable, emitted, nextId, loc,
                   queries>>

\* the destination Entities.insertTag(entity, type) stages
insertTagDestination(dests, comps, tbls, locs, e, type) ==
    BitOr(getEntityArchetype(dests, tbls, locs, e), getComponentMask(comps, type))

\* Entities.insertTag(entity, component)
InsertTag(e, type) ==
    /\ e \in Entities
    /\ components' = RegisterType(components, type)
    /\ destinations' = setDestination(destinations, e,
            insertTagDestination(destinations, components, tables, loc, e, type))
    /\ UNCHANGED <<tables, archetypeToTable, emitted, nextId, loc, pending,
                   queries>>

\* the pending payload after Entities.insert: replace the value of the same type
\* in place, else append
insertPending(cs, instance) ==
    LET existingIndex == IndexOf(TypesOf(cs), instance.type)
    IN IF existingIndex # -1 THEN [cs EXCEPT ![existingIndex + 1] = instance]
       ELSE Append(cs, instance)

\* Entities.insert(entity, instance)
Insert(e, instance) ==
    /\ e \in Entities
    /\ components' = RegisterType(components, instance.type)
    /\ destinations' = setDestination(destinations, e,
            insertTagDestination(destinations, components, tables, loc, e, instance.type))
    /\ pending' = (e :> insertPending(IF e \in DOMAIN pending THEN pending[e] ELSE <<>>,
                                      instance)) @@ pending
    /\ UNCHANGED <<tables, archetypeToTable, emitted, nextId, loc, queries>>

\* the destination Entities.remove(entity, type) stages
removeDestination(dests, comps, tbls, locs, e, type) ==
    BitAndNot(getEntityArchetype(dests, tbls, locs, e), getComponentMask(comps, type))

\* Entities.remove(entity, component)
Remove(e, type) ==
    /\ e \in Entities
    /\ components' = RegisterType(components, type)
    /\ destinations' = setDestination(destinations, e,
            removeDestination(destinations, components, tables, loc, e, type))
    /\ UNCHANGED <<tables, archetypeToTable, emitted, nextId, loc, pending,
                   queries>>

\* one iteration of the loop of Entities.flush
\* the loop state after table.move returned m for entity in the world w2;
\* setLocation is not reached when move threw
relocated(w2, entity, m) ==
    [w |-> [w2 EXCEPT !.tables = m.tables],
     loc |-> IF m.threw THEN m.loc ELSE [m.loc EXCEPT ![entity] = m.location],
     threw |-> m.threw]

\* the loop body after getTable returned: w2 holds the target table
moveStaged(st, entry, cs, w2) ==
    relocated(w2, entry.e,
              move(w2.tables, st.loc, st.loc[entry.e].tableId + 1,
                   st.loc[entry.e].tableRow, w2.archetypeToTable[entry.a] + 1, cs))

flushEntity(st, entry, pend) ==
    moveStaged(st, entry, IF entry.e \in DOMAIN pend THEN pend[entry.e] ELSE <<>>,
               getTable(st.w, entry.a))

RECURSIVE flushLoop(_, _, _, _)
flushLoop(st, dests, pend, i) ==
    IF st.threw \/ i > Len(dests) THEN st
    ELSE flushLoop(flushEntity(st, dests[i], pend), dests, pend, i + 1)

\* what Entities.flush() leaves when its loop ended in st; a throw leaves the loop
\* before state.clear()
FlushWrites(st) ==
    /\ tables' = st.w.tables
    /\ archetypeToTable' = st.w.archetypeToTable
    /\ emitted' = st.w.emitted
    /\ queries' = st.w.queries
    /\ loc' = st.loc
    /\ destinations' = IF st.threw THEN destinations ELSE <<>>
    /\ pending' = IF st.threw THEN pending ELSE [x \in {} |-> <<>>]

\* Entities.flush()
Flush ==
    /\ FlushWrites(flushLoop([w |-> World, loc |-> loc, threw |-> FALSE],
                             destinations, pending, 1))
    /\ UNCHANGED <<components, nextId>>

----------------------------------------------------------------------------
(* World-level operations *)

TypeLists == {<<>>, <<"P">>, <<"T">>, <<"P", "T">>}

\* world.getTable(world.getArchetype(...types))
AcquireTable(ts) ==
    LET archetype == getArchetype(components, ts)
        w1 == [World EXCEPT !.components = RegisterAll(components, ts)]
        w2 == getTable(w1, archetype)
    IN /\ components' = w2.components
       /\ tables' = w2.tables
       /\ archetypeToTable' = w2.archetypeToTable
       /\ emitted' = w2.emitted
       /\ queries' = w2.queries
       /\ UNCHANGED <<nextId, loc, destinations, pending>>

\* new Query(world, accessors, filter)
CreateQuery(qid) ==
    /\ qid \notin DOMAIN queries
    /\ components' = ComponentsAfterQuery(components, QueryCatalog[qid])
    /\ queries' = (qid :> NewQuery(QueryCatalog[qid], components, tables)) @@ queries
    /\ UNCHANGED <<tables, archetypeToTable, emitted, nextId, loc, destinations,
                   pending>>

----------------------------------------------------------------------------
(* Storage: the table registry of the core world *)

\* Storage.init(): the empty table under archetype 0n
InitStorage ==
    /\ sTables = <<NewTable(0, 0, <<>>)>>
    /\ sNextTableId = 0
    /\ sArchToId = (0 :> 0)

StorageRegistry == <<"Entity", "P", "T">>

\* Storage.addTable(archetype, components)
addTable(st, archetype, comps) ==
    LET tableId == st.nextTableId + 1
        table == NewTable(tableId, archetype, decodeArchetype(comps, archetype))
    IN [tables |-> Append(st.tables, table),
        nextTableId |-> tableId,
        archToId |-> (archetype :> tableId) @@ st.archToId]

Storage == [tables |-> sTables, nextTableId |-> sNextTableId, archToId |-> sArchToId]

\* Storage.acquireTable(archetype, components)
StorageAcquireTable(archetype) ==
    /\ sNextTableId < MaxStorageTables
    /\ LET st == IF archetype \in DOMAIN sArchToId THEN Storage
                 ELSE addTable(Storage, archetype, StorageRegistry)
       IN /\ sTables' = st.tables
          /\ sNextTableId' = st.nextTableId
          /\ sArchToId' = st.archToId

\* Storage.getTable(tableId): the element at that index, or undefined
StorageGetTable(tbls, tableId) ==
    IF tableId >= 0 /\ tableId < Len(tbls) THEN tbls[tableId + 1] ELSE Undef

\* Storage.removeTable(removedTable), for the table object at index i
StorageRemoveTable(i) ==
    /\ i \in 1 .. Len(sTables)
    /\ sTables' = SelectSeq(sTables, LAMBDA t : t # sTables[i])
    /\ sArchToId' = [a \in DOMAIN sArchToId \ {sTables[i].archetype} |-> sArchToId[a]]
    /\ UNCHANGED sNextTableId

\* Storage.clear()
StorageClear ==
    /\ sTables' = <<>>
    /\ sArchToId' = [x \in {} |-> 0]
    /\ UNCHANGED sNextTableId

\* new World(): the sentinel table under archetype 0n, Entity as componentId 0
InitWorld ==
    /\ components = <<EntityType>>
    /\ tables = <<NewTable(0, 0, <<>>)>>
    /\ archetypeToTable = (0 :> 0)
    /\ emitted = <<>>
    /\ nextId = 0
    /\ loc = [x \in {} |-> [tableId |-> 0, tableRow |-> 0]]
    /\ destinations = <<>>
    /\ pending = [x \in {} |-> <<>>]
    /\ queries = [x \in {} |-> 0]
    /\ calls = 0
    /\ despawned = {}

Timings == {"before", "after", "custom"}

\* the default schedules of a world and the systems added to them
ScheduleOrder == <<"Startup", "PreUpdate", "Update", "PostUpdate">>
RegisteredSystems ==
    [Startup |-> <<"init">>, PreUpdate |-> <<"pre">>,
     Update |-> <<"u1", "u2">>, PostUpdate |-> <<"post">>]

\* new World(config) followed by addSystems
InitRun(t) ==
    /\ timing = t
    /\ hasStarted = FALSE
    /\ systems = RegisteredSystems
    /\ tasks = <<>>
    /\ log = <<>>

\* new EventBus()
NoEmission == [pc |-> "idle", k |-> 0, len |-> 0, atStart |-> {}, removed |-> {}]

InitBus ==
    /\ emission = NoEmission
    /\ subscribers = <<>>
    /\ invoked = <<>>
    /\ busOps = <<>>

NoResource == [type |-> "", id |-> 0]

\* resources = [] of a new World
InitResources ==
    /\ resources = <<>>
    /\ fromWorldCalls = <<>>
    /\ returned = NoResource
    /\ resOps = <<>>

\* a prepare() call: pc is "idle" before the call, "all" at await Promise.all,
\* "schedules" in the loop with `left` schedules to prepare, then "resolved" or
\* "rejected"; unsettled holds the plugin promises pending when it resolved
NoPrepare == [pc |-> "idle", awaited |-> {}, left |-> 0, unsettled |-> {}]

\* _pendingPlugins = [] of a new World
InitPlugins ==
    /\ pluginPromises = <<>>
    /\ pendingPlugins = <<>>
    /\ prep = NoPrepare

NoHas == [e |-> -1, type |-> "", value |-> FALSE]
NoGet == [e |-> -1, kind |-> "", elements |-> <<>>]

\* nothing has been read yet
InitReads ==
    /\ hasResult = NoHas
    /\ getResult = NoGet
    /\ spawnedWith = [x \in {} |-> <<>>]

NoSchedulePrepare == [pc |-> "idle", i |-> 0, gen |-> 0]

\* new Schedule(world)
NoScheduleRun == [pc |-> "idle", i |-> 0, gen |-> 0, started |-> {}, removed |-> {}]

InitSchedule ==
    /\ schSystems = <<>>
    /\ schArgs = <<>>
    /\ schPrep = NoSchedulePrepare
    /\ schRun = NoScheduleRun
    /\ schLog = <<>>

INVALID == -1
NoCall == [op |-> "", handle |-> [index |-> 0, generation |-> 0], result |-> INVALID]

\* new Entities() of v3
InitAllocator ==
    /\ meta = <<>>
    /\ allocPending = <<>>
    /\ freelist = <<>>
    /\ handed = {}
    /\ allocLast = NoCall
    /\ freeLog = [ever |-> {}, unflushed |-> {}]

\* no query under study has been constructed
NoQuery == [accessors |-> <<>>, individual |-> FALSE, filter |-> None, made |-> FALSE]

InitFilter == built = NoQuery

NoMask == [world |-> 0, type |-> "", mask |-> 0]

\* a second new World() and the module just loaded: the cache is empty
InitMasks ==
    /\ otherComponents = <<EntityType>>
    /\ componentMasks = [t \in UserTypes |-> Absent]
    /\ lastMask = NoMask

\* new World(): no listener of the start event
InitListeners == startListeners = <<>> /\ startInvoked = <<>>

Init ==
    /\ InitWorld /\ InitStorage /\ InitRun("after") /\ InitBus /\ InitResources
    /\ InitPlugins /\ InitReads /\ InitSchedule /\ InitAllocator /\ InitFilter
    /\ InitListeners /\ InitMasks

\* every API call counts against the bound on the length of a run
Tick == calls < MaxCalls /\ calls' = calls + 1

DoSpawn == \E cs \in SpawnPayloads : Tick /\ Spawn(cs) /\ UNCHANGED <<despawned, storageVars, otherVars>>
DoDespawn == \E e \in Entities : Tick /\ Despawn(e) /\ UNCHANGED <<storageVars, otherVars>>
DoInsert == \E e \in Entities, n \in 1 .. MaxVal :
                Tick /\ Insert(e, PVal(n)) /\ UNCHANGED <<despawned, storageVars, otherVars>>
DoInsertTag == \E e \in Entities, t \in AllTypes :
                Tick /\ InsertTag(e, t) /\ UNCHANGED <<despawned, storageVars, otherVars>>
DoRemove == \E e \in Entities, t \in AllTypes : Tick /\ Remove(e, t) /\ UNCHANGED <<despawned, storageVars, otherVars>>
DoFlush == Tick /\ Flush /\ UNCHANGED <<despawned, storageVars, otherVars>>
DoAcquireTable == \E ts \in TypeLists : Tick /\ AcquireTable(ts) /\ UNCHANGED <<despawned, storageVars, otherVars>>
DoCreateQuery == \E qid \in QueryIds : Tick /\ CreateQuery(qid) /\ UNCHANGED <<despawned, storageVars, otherVars>>

Next ==
    \/ DoSpawn
    \/ DoDespawn
    \/ DoInsert
    \/ DoInsertTag
    \/ DoRemove
    \/ DoFlush
    \/ DoAcquireTable
    \/ DoCreateQuery

Spec == Init /\ [][Next]_vars

----------------------------------------------------------------------------
(* The Storage registry driven through its public methods *)

DoStorageAcquireTable ==
    \E archetype \in Archetypes :
        StorageAcquireTable(archetype) /\ UNCHANGED <<worldVars, calls, despawned, otherVars>>

DoStorageRemoveTable ==
    \E i \in 1 .. Len(sTables) :
        StorageRemoveTable(i) /\ UNCHANGED <<worldVars, calls, despawned, otherVars>>

DoStorageClear == StorageClear /\ UNCHANGED <<worldVars, calls, despawned, otherVars>>

NextStorage ==
    \/ DoStorageAcquireTable
    \/ DoStorageRemoveTable
    \/ DoStorageClear

SpecStorage == Init /\ [][NextStorage]_vars

----------------------------------------------------------------------------
(* Table.move called directly with a row that is not a row of the source table *)

MaxRow == 3
InvalidRows(t) == {row \in -1 .. MaxRow : row < 0 \/ row >= TableLength(t)}
MovePayloads == {<<>>, <<PVal(1)>>}

\* sourceTable.move(row, targetTable, components) with the returned location dropped
DirectMove(si, row, ti, cs) ==
    /\ \E m \in {move(tables, loc, si, row, ti, cs)} :
          /\ tables' = m.tables
          /\ loc' = m.loc
    /\ UNCHANGED <<components, archetypeToTable, emitted, nextId, destinations,
                   pending, queries>>

DoDirectMove ==
    \E si \in 1 .. Len(tables), ti \in 1 .. Len(tables) :
        \E row \in InvalidRows(tables[si]), cs \in MovePayloads :
            Tick /\ DirectMove(si, row, ti, cs) /\ UNCHANGED <<despawned, storageVars, otherVars>>

NextMove ==
    \/ DoSpawn
    \/ DoFlush
    \/ DoDirectMove

SpecMove == Init /\ [][NextMove]_vars

----------------------------------------------------------------------------
(* Entities.flush in a world whose createTable listener throws *)

\* the archetypes for which the registered createTable listener throws
ListenerFaults == {{}} \cup {{a} : a \in Archetypes}

\* World.getTable up to the throwing listener: the table is pushed and registered,
\* onTableUpdated is not emitted
TableCreatedListenerThrows(w, archetype) ==
    LET table == NewTable(Len(w.tables), archetype,
                          decodeArchetype(w.components, archetype))
    IN [w EXCEPT
          !.tables = Append(w.tables, table),
          !.archetypeToTable = (archetype :> table.id) @@ w.archetypeToTable]

flushEntityNotifying(st, entry, pend, bad) ==
    IF entry.a \notin DOMAIN st.w.archetypeToTable /\ entry.a \in bad
    THEN [w |-> TableCreatedListenerThrows(st.w, entry.a), loc |-> st.loc, threw |-> TRUE]
    ELSE flushEntity(st, entry, pend)

RECURSIVE flushLoopNotifying(_, _, _, _, _)
flushLoopNotifying(st, dests, pend, i, bad) ==
    IF st.threw \/ i > Len(dests) THEN st
    ELSE flushLoopNotifying(flushEntityNotifying(st, dests[i], pend, bad),
                            dests, pend, i + 1, bad)

FlushOutcome(bad) ==
    flushLoopNotifying([w |-> World, loc |-> loc, threw |-> FALSE],
                       destinations, pending, 1, bad)

\* Entities.flush(); a throw leaves the loop before state.clear()
FlushNotifying(bad) ==
    /\ FlushWrites(FlushOutcome(bad))
    /\ UNCHANGED <<components, nextId>>

DoFlushNotifying ==
    \E bad \in ListenerFaults :
        Tick /\ FlushNotifying(bad) /\ UNCHANGED <<despawned, storageVars, otherVars>>

NextFlushFault ==
    \/ DoSpawn
    \/ DoInsert
    \/ DoFlushNotifying

SpecFlushFault == Init /\ [][NextFlushFault]_vars

----------------------------------------------------------------------------
(* World.run, World.runSchedule and Schedule.run *)

MaxRuns == 2

Event(ev, t, sched, sys) == [ev |-> ev, task |-> t, sched |-> sched, sys |-> sys]

Settled(task) == task.pc \in {"done", "rejected"} /\ task.flushes = 0

\* the entities.flush() calls between entering run()/runSchedule and schedule.run():
\* one in runSchedule when the timing is "before", one more in run() when the
\* schedule opens the update cycle
FlushesBefore(t, opensCycle) ==
    IF t = "before" THEN (IF opensCycle THEN 2 ELSE 1) ELSE 0

\* a runSchedule and run() without their flush for the timing "after"
FlushesAfterNever(t, closesCycle) == 0

\* the entities.flush() calls after schedule.run() returned: one in runSchedule
\* when the timing is "after", one more in run() when the schedule closes the cycle
FlushesAfter(t, closesCycle) ==
    IF t = "after" THEN (IF closesCycle THEN 2 ELSE 1) ELSE 0

\* a run() that enters Startup whatever _hasStarted says
FirstScheduleAlwaysStartup(started) == "Startup"

\* world.run(): if (!this._hasStarted) runSchedule(StartupSchedule), else the cycle
FirstSchedule(started) == IF started THEN "PreUpdate" ELSE "Startup"

\* world.run(): the check of _hasStarted and the entry into the first runSchedule
CallRun ==
    /\ Len(tasks) < MaxRuns
    /\ \A k \in 1 .. Len(tasks) : Settled(tasks[k])
    /\ LET first == FirstSchedule(hasStarted)
       IN /\ tasks' = Append(tasks, [sched |-> first, i |-> 1, pc |-> "begin",
                                     flushes |-> FlushesBefore(timing, hasStarted),
                                     worked |-> FALSE, err |-> ""])
          /\ log' = Append(log, Event("call", Len(tasks) + 1, first, ""))
    /\ UNCHANGED <<timing, hasStarted, systems, worldVars>>

\* one entities.flush() of run() or runSchedule
RunFlush(t) ==
    /\ tasks[t].flushes > 0
    /\ Flush
    /\ tasks' = [tasks EXCEPT ![t].flushes = @ - 1]
    /\ log' = Append(log, Event("flush", t, tasks[t].sched, ""))
    /\ UNCHANGED <<timing, hasStarted, systems>>

\* World.runSchedule reaches schedule.run()
BeginSchedule(t) ==
    /\ tasks[t].pc = "begin"
    /\ tasks[t].flushes = 0
    /\ tasks' = [tasks EXCEPT ![t].pc = "invoke", ![t].i = 1]
    /\ log' = Append(log, Event("begin", t, tasks[t].sched, ""))
    /\ UNCHANGED <<timing, hasStarted, systems, worldVars>>

\* a Schedule.run that calls the next system without awaiting the previous one
CanInvokeNextWithoutAwait(task) == task.pc \in {"invoke", "await"}

\* Schedule.run: the loop reaches its next iteration only when the await of the
\* previous system has resumed
CanInvokeNext(task) == task.pc = "invoke"

\* a Schedule.run that catches the error of a system and goes on
RunFailureSwallowed(task, sys) == [task EXCEPT !.pc = "invoke"]

\* a runSchedule that flushes in a finally block
RunFailureThenFlush(task, sys) ==
    [task EXCEPT !.pc = "rejected", !.err = sys, !.flushes = 1]

\* a throw or rejection leaves Schedule.run, runSchedule and run through their
\* awaits: the call rejects with the error and does nothing else
RunFailure(task, sys) == [task EXCEPT !.pc = "rejected", !.err = sys]

\* Schedule.run: systems[i](...args), which returns (a promise or a value) or throws
InvokeSystem(t, throws) ==
    /\ CanInvokeNext(tasks[t])
    /\ tasks[t].flushes = 0
    /\ tasks[t].i <= Len(systems[tasks[t].sched])
    /\ LET sys == systems[tasks[t].sched][tasks[t].i]
       IN IF throws
          THEN /\ tasks' = [tasks EXCEPT ![t] = RunFailure(tasks[t], sys)]
               /\ log' = log \o <<Event("invoke", t, tasks[t].sched, sys),
                                  Event("throw", t, tasks[t].sched, sys)>>
          ELSE /\ tasks' = [tasks EXCEPT ![t].pc = "await", ![t].i = @ + 1,
                                         ![t].worked = FALSE]
               /\ log' = Append(log, Event("invoke", t, tasks[t].sched, sys))
    /\ UNCHANGED <<timing, hasStarted, systems, worldVars>>

\* the system awaited by Schedule.run stages a spawn before its promise settles
SystemWork(t) ==
    /\ tasks[t].pc = "await"
    /\ ~tasks[t].worked
    /\ Spawn(<<>>)
    /\ tasks' = [tasks EXCEPT ![t].worked = TRUE]
    /\ log' = Append(log, Event("effect", t, tasks[t].sched,
                                systems[tasks[t].sched][tasks[t].i - 1]))
    /\ UNCHANGED <<timing, hasStarted, systems>>

\* the promise of the awaited system settles
SettleSystem(t, fulfilled) ==
    /\ tasks[t].pc = "await"
    /\ LET sys == systems[tasks[t].sched][tasks[t].i - 1]
       IN IF fulfilled
          THEN /\ tasks' = [tasks EXCEPT ![t].pc = "invoke"]
               /\ log' = Append(log, Event("settle", t, tasks[t].sched, sys))
          ELSE /\ tasks' = [tasks EXCEPT ![t] = RunFailure(tasks[t], sys)]
               /\ log' = Append(log, Event("reject", t, tasks[t].sched, sys))
    /\ UNCHANGED <<timing, hasStarted, systems, worldVars>>

\* Schedule.run returns to runSchedule
EndSchedule(t) ==
    /\ tasks[t].pc = "invoke"
    /\ tasks[t].flushes = 0
    /\ tasks[t].i > Len(systems[tasks[t].sched])
    /\ tasks' = [tasks EXCEPT
                    ![t].pc = "ended",
                    ![t].flushes = FlushesAfter(timing, tasks[t].sched = "PostUpdate")]
    /\ log' = Append(log, Event("end", t, tasks[t].sched, ""))
    /\ UNCHANGED <<timing, hasStarted, systems, worldVars>>

NextSchedule(sched) ==
    CASE sched = "Startup" -> "PreUpdate"
      [] sched = "PreUpdate" -> "Update"
      [] sched = "Update" -> "PostUpdate"
      [] OTHER -> ""

\* runSchedule returns to run(): _hasStarted is set after Startup, the next
\* schedule of the cycle is entered, run() returns after PostUpdate
ContinueRun(t) ==
    /\ tasks[t].pc = "ended"
    /\ tasks[t].flushes = 0
    /\ LET sched == tasks[t].sched
       IN /\ hasStarted' = IF sched = "Startup" THEN TRUE ELSE hasStarted
          /\ tasks' = IF sched = "PostUpdate"
                      THEN [tasks EXCEPT ![t].pc = "done"]
                      ELSE [tasks EXCEPT
                               ![t].pc = "begin",
                               ![t].sched = NextSchedule(sched),
                               ![t].flushes = FlushesBefore(timing, sched = "Startup")]
          /\ log' = IF sched = "PostUpdate"
                    THEN Append(log, Event("return", t, "", ""))
                    ELSE log
    /\ UNCHANGED <<timing, systems, worldVars>>

runFrame == <<calls, despawned, storageVars, busVars, resVars, pluginVars, readVars, moreVars>>

DoCallRun == CallRun /\ UNCHANGED runFrame
DoRunFlush == \E t \in 1 .. Len(tasks) : RunFlush(t) /\ UNCHANGED runFrame
DoBeginSchedule == \E t \in 1 .. Len(tasks) : BeginSchedule(t) /\ UNCHANGED runFrame
DoInvokeSystem ==
    \E t \in 1 .. Len(tasks), throws \in BOOLEAN :
        InvokeSystem(t, throws) /\ UNCHANGED runFrame
DoSystemWork == \E t \in 1 .. Len(tasks) : SystemWork(t) /\ UNCHANGED runFrame
DoSettleSystem ==
    \E t \in 1 .. Len(tasks), fulfilled \in BOOLEAN :
        SettleSystem(t, fulfilled) /\ UNCHANGED runFrame
DoEndSchedule == \E t \in 1 .. Len(tasks) : EndSchedule(t) /\ UNCHANGED runFrame
DoContinueRun == \E t \in 1 .. Len(tasks) : ContinueRun(t) /\ UNCHANGED runFrame

NextRun ==
    \/ DoCallRun
    \/ DoRunFlush
    \/ DoBeginSchedule
    \/ DoInvokeSystem
    \/ DoSystemWork
    \/ DoSettleSystem
    \/ DoEndSchedule
    \/ DoContinueRun

InitAnyTiming == InitWorld /\ InitStorage /\ InitBus /\ InitResources /\ InitPlugins /\ InitReads /\ InitSchedule /\ InitAllocator /\ InitFilter /\ InitListeners /\ InitMasks /\ \E t \in Timings : InitRun(t)

SpecRun == InitAnyTiming /\ [][NextRun]_vars

\* world.run() called while an earlier call has not settled: the same entry, with
\* the _hasStarted the earlier call has left so far
CallRunAgain ==
    /\ Len(tasks) < MaxRuns
    /\ \E k \in 1 .. Len(tasks) : ~Settled(tasks[k])
    /\ LET first == FirstSchedule(hasStarted)
       IN /\ tasks' = Append(tasks, [sched |-> first, i |-> 1, pc |-> "begin",
                                     flushes |-> FlushesBefore(timing, hasStarted),
                                     worked |-> FALSE, err |-> ""])
          /\ log' = Append(log, Event("call", Len(tasks) + 1, first, ""))
    /\ UNCHANGED <<timing, hasStarted, systems, worldVars>>

DoCallRunAgain == CallRunAgain /\ UNCHANGED runFrame

MaxLogged == 10

\* the steps of the calls in progress, while the history is short
StepOfSomeRun == Len(log) < MaxLogged /\ NextRun

NextRunOverlap == DoCallRunAgain \/ StepOfSomeRun

SpecRunOverlap == InitAnyTiming /\ [][NextRunOverlap]_vars

----------------------------------------------------------------------------
(* EventBus *)

Callbacks == {"a", "b", "c"}
MaxPriority == 2
MaxBusOps == 4

\* one step of a stable sort: h goes behind every handler whose priority is not higher
InsertByPriority(sorted, h) ==
    LET n == Cardinality({k \in 1 .. Len(sorted) : sorted[k].priority <= h.priority})
    IN SubSeq(sorted, 1, n) \o <<h>> \o SubSeq(sorted, n + 1, Len(sorted))

\* EventBus._sort: Array.prototype.sort by priority, which is stable
RECURSIVE sort(_)
sort(subs) ==
    IF Len(subs) = 0 THEN <<>>
    ELSE InsertByPriority(sort(SubSeq(subs, 1, Len(subs) - 1)), subs[Len(subs)])

\* _subscribers.findIndex(it => it.callback === callback), 0 when absent
HandlerIndex(subs, callback) ==
    LET hits == {k \in 1 .. Len(subs) : subs[k].callback = callback}
    IN IF hits = {} THEN 0 ELSE CHOOSE k \in hits : \A j \in hits : k <= j

\* a subscribe that pushes a handler without looking for an existing one
subscribeAlwaysPushing(subs, callback, priority) ==
    sort(Append(subs, [callback |-> callback, priority |-> priority]))

\* EventBus.subscribe(callback, priority)
subscribe(subs, callback, priority) ==
    LET k == HandlerIndex(subs, callback)
        updated == IF k # 0 THEN [subs EXCEPT ![k].priority = priority]
                   ELSE Append(subs, [callback |-> callback, priority |-> priority])
        needSort == IF k # 0 THEN subs[k].priority # priority
                    ELSE Len(subs) > 0 /\ subs[Len(subs)].priority > priority
    IN IF needSort THEN sort(updated) ELSE updated

\* EventBus.unsubscribe(callback)
unsubscribe(subs, callback) ==
    LET k == HandlerIndex(subs, callback)
    IN IF k = 0 THEN subs
       ELSE SubSeq(subs, 1, k - 1) \o SubSeq(subs, k + 1, Len(subs))

BusOp(op, callback, priority) == [op |-> op, callback |-> callback, priority |-> priority]

busOuterFrame == <<worldVars, calls, despawned, storageVars, runVars, resVars, pluginVars,
                   readVars, moreVars>>

busFrame == <<busOuterFrame, emission>>

Subscribe(callback, priority) ==
    /\ Len(busOps) < MaxBusOps
    /\ subscribers' = subscribe(subscribers, callback, priority)
    /\ busOps' = Append(busOps, BusOp("subscribe", callback, priority))
    /\ UNCHANGED <<invoked, busFrame>>

Unsubscribe(callback) ==
    /\ Len(busOps) < MaxBusOps
    /\ subscribers' = unsubscribe(subscribers, callback)
    /\ busOps' = Append(busOps, BusOp("unsubscribe", callback, 0))
    /\ UNCHANGED <<invoked, busFrame>>

\* EventBus.clear()
Clear ==
    /\ Len(busOps) < MaxBusOps
    /\ subscribers' = <<>>
    /\ busOps' = Append(busOps, BusOp("clear", "", 0))
    /\ UNCHANGED <<invoked, busFrame>>

\* EventBus.emit(...args) with callbacks that leave the bus alone
Emit ==
    /\ Len(busOps) < MaxBusOps
    /\ invoked' = [k \in 1 .. Len(subscribers) |-> subscribers[k].callback]
    /\ busOps' = Append(busOps, BusOp("emit", "", 0))
    /\ UNCHANGED <<subscribers, busFrame>>

DoSubscribe == \E callback \in Callbacks, priority \in 0 .. MaxPriority : Subscribe(callback, priority)
DoUnsubscribe == \E callback \in Callbacks : Unsubscribe(callback)

NextBus ==
    \/ DoSubscribe
    \/ DoUnsubscribe
    \/ Clear
    \/ Emit

SpecBus == Init /\ [][NextBus]_vars

----------------------------------------------------------------------------
(* EventBus.emit, one callback per step: _subscribers.forEach visits the    *)
(* indices below the length the array had at the call and skips those the   *)
(* array no longer has. atStart and removed are history.                    *)

\* subscriptions made before the emission
SubscribeBefore == emission.pc = "idle" /\ DoSubscribe

\* emit() is called
StartEmit ==
    /\ emission.pc = "idle"
    /\ emission' = [pc |-> "loop", k |-> 0, len |-> Len(subscribers),
                    atStart |-> {subscribers[j].callback : j \in 1 .. Len(subscribers)},
                    removed |-> {}]
    /\ invoked' = <<>>
    /\ UNCHANGED <<subscribers, busOps, busOuterFrame>>

\* forEach has an index to visit: below the initial length and present in the array
CanVisit == emission.pc = "loop" /\ emission.k < emission.len /\ emission.k < Len(subscribers)

\* the callback at the index is called and leaves the bus alone
VisitHandler ==
    /\ CanVisit
    /\ invoked' = Append(invoked, subscribers[emission.k + 1].callback)
    /\ emission' = [emission EXCEPT !.k = @ + 1]
    /\ UNCHANGED <<subscribers, busOps, busOuterFrame>>

\* the callback at the index is called and calls unsubscribe(callback)
VisitHandlerUnsubscribing ==
    /\ CanVisit
    /\ invoked' = Append(invoked, subscribers[emission.k + 1].callback)
    /\ \E callback \in Callbacks :
        /\ HandlerIndex(subscribers, callback) # 0
        /\ subscribers' = unsubscribe(subscribers, callback)
        /\ emission' = [emission EXCEPT !.k = @ + 1, !.removed = @ \cup {callback}]
    /\ UNCHANGED <<busOps, busOuterFrame>>

\* the callback at the index is called and calls subscribe(callback, priority)
VisitHandlerSubscribing ==
    /\ CanVisit
    /\ invoked' = Append(invoked, subscribers[emission.k + 1].callback)
    /\ \E callback \in Callbacks, priority \in 0 .. MaxPriority :
        /\ subscribers' = subscribe(subscribers, callback, priority)
    /\ emission' = [emission EXCEPT !.k = @ + 1]
    /\ UNCHANGED <<busOps, busOuterFrame>>

\* forEach has no index left to visit and emit returns
EndEmit ==
    /\ emission.pc = "loop"
    /\ ~CanVisit
    /\ emission' = [emission EXCEPT !.pc = "done"]
    /\ UNCHANGED <<subscribers, invoked, busOps, busOuterFrame>>

NextEmit ==
    \/ SubscribeBefore
    \/ StartEmit
    \/ VisitHandler
    \/ VisitHandlerUnsubscribing
    \/ VisitHandlerSubscribing
    \/ EndEmit

SpecEmit == Init /\ [][NextEmit]_vars

----------------------------------------------------------------------------
(* Resources of the world *)

\* resource classes: "Plain" is built with new, "Loaded" has a static async fromWorld
ResourceTypes == {"Plain", "Loaded"}
HasFromWorld(type) == type = "Loaded"
MaxResOps == 5

\* resources.findIndex(res => res.constructor === type), 0 when absent
ResourceIndex(res, type) ==
    LET hits == {k \in 1 .. Len(res) : res[k].type = type}
    IN IF hits = {} THEN 0 ELSE CHOOSE k \in hits : \A j \in hits : k <= j

\* an insertResource that appends without looking for a resource of the type
insertResourceAppending(res, r) == Append(res, r)

\* World.insertResource(resource)
insertResource(res, r) ==
    LET k == ResourceIndex(res, r.type)
    IN IF k = 0 THEN Append(res, r) ELSE [res EXCEPT ![k] = r]

CountOfType(res, type) == Cardinality({k \in 1 .. Len(res) : res[k].type = type})

\* the object a call makes: told apart by the call that made it
NewResource(type) == [type |-> type, id |-> Len(resOps) + 1]

ResOp(op, r, before) == [op |-> op, type |-> r.type, res |-> r, before |-> before]

resFrame == <<worldVars, calls, despawned, storageVars, runVars, busVars, pluginVars, readVars, moreVars>>

InsertResource(type) ==
    /\ Len(resOps) < MaxResOps
    /\ LET r == NewResource(type)
       IN /\ resources' = insertResource(resources, r)
          /\ resOps' = Append(resOps, ResOp("insertResource", r, CountOfType(resources, type)))
    /\ UNCHANGED <<fromWorldCalls, returned, resFrame>>

\* World.getResource(type) up to its return or its await
GetResource(type) ==
    /\ Len(resOps) < MaxResOps
    /\ LET k == ResourceIndex(resources, type)
           found == IF k # 0 THEN resources[k] ELSE NewResource(type)
       IN IF k # 0 \/ ~HasFromWorld(type)
          THEN /\ resources' = IF k # 0 THEN resources ELSE Append(resources, found)
               /\ returned' = found
               /\ resOps' = Append(resOps, ResOp("getResource", found, 0))
               /\ UNCHANGED fromWorldCalls
          ELSE /\ fromWorldCalls' = Append(fromWorldCalls, type)
               /\ resOps' = Append(resOps, ResOp("fromWorld", [type |-> type, id |-> 0], 0))
               /\ UNCHANGED <<resources, returned>>
    /\ UNCHANGED resFrame

\* World.getResource(type) after fromWorld(world) has resolved
ResolveFromWorld ==
    /\ Len(resOps) < MaxResOps
    /\ Len(fromWorldCalls) > 0
    /\ LET r == NewResource(Head(fromWorldCalls))
       IN /\ resources' = Append(resources, r)
          /\ returned' = r
          /\ resOps' = Append(resOps, ResOp("resolved", r, 0))
    /\ fromWorldCalls' = Tail(fromWorldCalls)
    /\ UNCHANGED resFrame

DoInsertResource == \E type \in ResourceTypes : InsertResource(type)
DoGetResource == \E type \in ResourceTypes : GetResource(type)

NextResources ==
    \/ DoInsertResource
    \/ DoGetResource
    \/ ResolveFromWorld

SpecResources == Init /\ [][NextResources]_vars

----------------------------------------------------------------------------
(* Plugins and World.prepare *)

MaxPlugins == 3

pluginFrame == <<worldVars, calls, despawned, storageVars, runVars, busVars, resVars, readVars, moreVars>>

\* World.addPlugin(plugin): an async plugin returns a promise, which is retained
AddPlugin(async) ==
    /\ Len(pluginPromises) < MaxPlugins
    /\ prep.pc \notin {"resolved", "rejected"}
    /\ IF async
       THEN /\ pluginPromises' = Append(pluginPromises, "pending")
            /\ pendingPlugins' = Append(pendingPlugins, Len(pluginPromises) + 1)
       ELSE UNCHANGED <<pluginPromises, pendingPlugins>>
    /\ UNCHANGED <<prep, pluginFrame>>

\* the promise of an async plugin settles
SettlePlugin(id, outcome) ==
    /\ pluginPromises[id] = "pending"
    /\ pluginPromises' = [pluginPromises EXCEPT ![id] = outcome]
    /\ UNCHANGED <<pendingPlugins, prep, pluginFrame>>

\* World.prepare() up to await Promise.all(this._pendingPlugins), which takes the
\* promises the array holds at the call
CallPrepare ==
    /\ prep.pc = "idle"
    /\ prep' = [prep EXCEPT !.pc = "all",
                            !.awaited = {pendingPlugins[k] : k \in 1 .. Len(pendingPlugins)}]
    /\ UNCHANGED <<pluginPromises, pendingPlugins, pluginFrame>>

\* Promise.all settles: prepare rejects, or empties the array and enters the loop
AfterPromiseAll ==
    /\ prep.pc = "all"
    /\ \/ /\ \E id \in prep.awaited : pluginPromises[id] = "rejected"
          /\ prep' = [prep EXCEPT !.pc = "rejected"]
          /\ UNCHANGED pendingPlugins
       \/ /\ \A id \in prep.awaited : pluginPromises[id] = "fulfilled"
          /\ pendingPlugins' = <<>>
          /\ prep' = [prep EXCEPT !.pc = "schedules", !.left = Len(ScheduleOrder)]
    /\ UNCHANGED <<pluginPromises, pluginFrame>>

\* await schedule.prepare() for the next schedule of the world
PrepareSchedule ==
    /\ prep.pc = "schedules"
    /\ prep.left > 0
    /\ prep' = [prep EXCEPT !.left = @ - 1]
    /\ UNCHANGED <<pluginPromises, pendingPlugins, pluginFrame>>

\* return this
PrepareResolves ==
    /\ prep.pc = "schedules"
    /\ prep.left = 0
    /\ prep' = [prep EXCEPT !.pc = "resolved",
                            !.unsettled = {id \in 1 .. Len(pluginPromises) :
                                              pluginPromises[id] = "pending"}]
    /\ UNCHANGED <<pluginPromises, pendingPlugins, pluginFrame>>

DoAddPlugin == \E async \in BOOLEAN : AddPlugin(async)
DoSettlePlugin ==
    \E id \in 1 .. Len(pluginPromises), outcome \in {"fulfilled", "rejected"} :
        SettlePlugin(id, outcome)

NextPlugins ==
    \/ DoAddPlugin
    \/ DoSettlePlugin
    \/ CallPrepare
    \/ AfterPromiseAll
    \/ PrepareSchedule
    \/ PrepareResolves

SpecPlugins == Init /\ [][NextPlugins]_vars

----------------------------------------------------------------------------
(* Entities.has *)

\* a has that looks at the staged destination when there is one
hasStaged(comps, tbls, locs, e, type) ==
    LET k == StagedIndex(destinations, e)
        archetype == IF k = 0 THEN tbls[locs[e].tableId + 1].archetype
                     ELSE destinations[k].a
    IN Bit(archetype, getComponentId(comps, type)) # 0

\* Entities.has(entity, component): (tableArchetype & (1n << id)) !== 0n
has(comps, tbls, locs, e, type) ==
    Bit(getTableArchetype(tbls, locs, e), getComponentId(comps, type)) # 0

\* the call, with the registration World.getComponentId makes of an unknown type
Has(e, type) ==
    /\ e \in Entities
    /\ components' = RegisterType(components, type)
    /\ hasResult' = [e |-> e, type |-> type,
                     value |-> has(components, tables, loc, e, type)]
    /\ UNCHANGED <<tables, archetypeToTable, emitted, nextId, loc, destinations,
                   pending, queries>>

hasFrame == <<despawned, storageVars, runVars, busVars, resVars, pluginVars, getResult, spawnedWith, moreVars>>

DoHas == \E e \in Entities, t \in AllTypes : Tick /\ Has(e, t) /\ UNCHANGED hasFrame

NextHas ==
    \/ DoSpawn
    \/ DoDespawn
    \/ DoInsert
    \/ DoInsertTag
    \/ DoRemove
    \/ DoFlush
    \/ DoHas

SpecHas == Init /\ [][NextHas]_vars

----------------------------------------------------------------------------
(* Query.get *)

\* a second sized component class; the specification below registers Entity, P
\* and V only, so archetypes stay within NumBits bits
VVal(n) == [type |-> "V", v |-> n]

PairQuery == [accessors |-> <<Acc("P"), Acc("V")>>, individual |-> FALSE, filter |-> None]

PairPayloads == {<<>>} \cup {<<PVal(n), VVal(m)>> : n, m \in 1 .. MaxVal}

\* Query.get(entity): null when the table of the entity does not match; reading a
\* column the table does not have is undefined[tableRow], a TypeError
get(q, tbls, locs, e) ==
    LET table == tbls[locs[e].tableId + 1]
        tableRow == locs[e].tableRow
    IN IF ~testArchetype(q, table.archetype)
       THEN [kind |-> "null", elements |-> <<>>]
       ELSE IF \E k \in 1 .. Len(q.components) : ~hasColumn(table, q.components[k])
            THEN [kind |-> "throws", elements |-> <<>>]
            ELSE [kind |-> "row",
                  elements |-> [k \in 1 .. Len(q.components) |->
                        ArrGet(table.cols[ColumnIndex(table, q.components[k]) + 1],
                               tableRow)]]

getFrame == <<despawned, storageVars, runVars, busVars, resVars, pluginVars, hasResult, moreVars>>

\* new Query(world, [P, V])
CreatePairQuery ==
    /\ "qPV" \notin DOMAIN queries
    /\ components' = ComponentsAfterQuery(components, PairQuery)
    /\ queries' = ("qPV" :> NewQuery(PairQuery, components, tables)) @@ queries
    /\ UNCHANGED <<tables, archetypeToTable, emitted, nextId, loc, destinations,
                   pending>>
    /\ UNCHANGED <<calls, getResult, spawnedWith, getFrame>>

Get(e) ==
    /\ "qPV" \in DOMAIN queries
    /\ getResult' = [e |-> e] @@ get(queries["qPV"], tables, loc, e)
    /\ UNCHANGED <<worldVars, calls, spawnedWith, getFrame>>

DoSpawnPair ==
    \E cs \in PairPayloads :
        /\ Tick /\ Spawn(cs)
        /\ spawnedWith' = (nextId :> cs) @@ spawnedWith
        /\ UNCHANGED <<getResult, getFrame>>

\* the other entities of the world: spawned bare, then changed at will
Others == {e \in Entities : spawnedWith[e] = <<>>}

DoInsertTagOther ==
    \E e \in Others, t \in {"P", "V"} :
        Tick /\ InsertTag(e, t) /\ UNCHANGED <<getResult, spawnedWith, getFrame>>

DoDespawnOther ==
    \E e \in Others :
        /\ Tick /\ Despawn(e)
        /\ UNCHANGED <<storageVars, runVars, busVars, resVars, pluginVars, readVars, moreVars>>

DoFlushForGet == Tick /\ Flush /\ UNCHANGED <<getResult, spawnedWith, getFrame>>

DoGet == \E e \in Entities : Get(e)

NextGet ==
    \/ DoSpawnPair
    \/ DoInsertTagOther
    \/ DoDespawnOther
    \/ DoFlushForGet
    \/ CreatePairQuery
    \/ DoGet

SpecGet == Init /\ [][NextGet]_vars

----------------------------------------------------------------------------
(* Schedule: addSystems, removeSystem, prepare. The calls are made one     *)
(* after another, each prepare() awaited before the next call.             *)

SystemNames == {"s1", "s2", "s3"}
MaxPrepares == 3

schedOuterFrame == <<worldVars, calls, despawned, storageVars, runVars, busVars, resVars,
                     pluginVars, readVars, allocVars, filterVars, listenerVars,
                     maskVars>>

schedFrame == <<schedOuterFrame, schedRunVars>>

\* Schedule.addSystems(system); adding a system twice is a development assertion
AddSystem(sys) ==
    /\ schPrep.pc = "idle"
    /\ schRun.pc = "idle"
    /\ IndexOf(schSystems, sys) = -1
    /\ schSystems' = Append(schSystems, sys)
    /\ UNCHANGED <<schArgs, schPrep, schedFrame>>

\* Schedule.removeSystem(system): splices _systems and leaves _args alone
RemoveSystem(sys) ==
    /\ schPrep.pc = "idle"
    /\ schRun.pc = "idle"
    /\ IndexOf(schSystems, sys) # -1
    /\ schSystems' = LET k == IndexOf(schSystems, sys) + 1
                     IN SubSeq(schSystems, 1, k - 1) \o SubSeq(schSystems, k + 1, Len(schSystems))
    /\ UNCHANGED <<schArgs, schPrep, schedFrame>>

\* Schedule.prepare() is called
CallSchedulePrepare ==
    /\ schPrep.pc = "idle"
    /\ schRun.pc = "idle"
    /\ schPrep.gen < MaxPrepares
    /\ schPrep' = [pc |-> "loop", i |-> 0, gen |-> schPrep.gen + 1]
    /\ UNCHANGED <<schSystems, schArgs, schedFrame>>

\* the argument tuple getSystemArguments makes: told apart by system and call
ArgsOf(sys, gen) == [sys |-> sys, gen |-> gen]

\* this._args[i] = ..., growing the array when i is its length
SetArgs(args, i, tuple) ==
    IF i < Len(args) THEN [args EXCEPT ![i + 1] = tuple] ELSE Append(args, tuple)

\* one iteration of the loop: this._args[i] = await Promise.all(...)
PrepareSystem ==
    /\ schPrep.pc = "loop"
    /\ schPrep.i < Len(schSystems)
    /\ schArgs' = SetArgs(schArgs, schPrep.i, ArgsOf(schSystems[schPrep.i + 1], schPrep.gen))
    /\ schPrep' = [schPrep EXCEPT !.i = @ + 1]
    /\ UNCHANGED <<schSystems, schedFrame>>

\* the loop ends and the promise of prepare() resolves
SchedulePrepared ==
    /\ schPrep.pc = "loop"
    /\ schPrep.i >= Len(schSystems)
    /\ schPrep' = [schPrep EXCEPT !.pc = "idle"]
    /\ UNCHANGED <<schSystems, schArgs, schedFrame>>

DoAddSystem == \E sys \in SystemNames : AddSystem(sys)
DoRemoveSystem == \E sys \in SystemNames : RemoveSystem(sys)

NextSchedulePrepare ==
    \/ DoAddSystem
    \/ DoRemoveSystem
    \/ CallSchedulePrepare
    \/ PrepareSystem
    \/ SchedulePrepared

SpecSchedule == Init /\ [][NextSchedulePrepare]_vars

----------------------------------------------------------------------------
(* Schedule.run: one system per step; started and removed are history, the *)
(* systems of the schedule when the call was made and those removed since  *)

MaxScheduleRuns == 2

\* args[i] ?? []
NoArgs == [sys |-> "none", gen |-> 0]

\* Schedule.run() is called: const systems = this._systems; const args = this._args
CallScheduleRun ==
    /\ schPrep.pc = "idle"
    /\ schRun.pc = "idle"
    /\ schRun.gen < MaxScheduleRuns
    /\ schRun' = [pc |-> "loop", i |-> 0, gen |-> schRun.gen + 1,
                  started |-> {schSystems[k] : k \in 1 .. Len(schSystems)},
                  removed |-> {}]
    /\ schLog' = <<>>
    /\ UNCHANGED <<schSystems, schArgs, schPrep, schedOuterFrame>>

\* systems[i](...(args[i] ?? []))
Invocation(i) ==
    [sys |-> schSystems[i + 1],
     args |-> IF i < Len(schArgs) THEN schArgs[i + 1] ELSE NoArgs]

\* this._systems.splice(this._systems.indexOf(system), 1)
Spliced(list, sys) ==
    LET k == IndexOf(list, sys) + 1
    IN SubSeq(list, 1, k - 1) \o SubSeq(list, k + 1, Len(list))

\* one iteration of the loop of run(); the system leaves the schedule alone
InvokeScheduled ==
    /\ schRun.pc = "loop"
    /\ schRun.i < Len(schSystems)
    /\ schLog' = Append(schLog, Invocation(schRun.i))
    /\ schRun' = [schRun EXCEPT !.i = @ + 1]
    /\ UNCHANGED <<schSystems, schArgs, schPrep, schedOuterFrame>>

\* one iteration of the loop; the system calls schedule.removeSystem(sys)
InvokeScheduledRemoving ==
    /\ schRun.pc = "loop"
    /\ schRun.i < Len(schSystems)
    /\ \E sys \in SystemNames :
        /\ IndexOf(schSystems, sys) # -1
        /\ schSystems' = Spliced(schSystems, sys)
        /\ schRun' = [schRun EXCEPT !.i = @ + 1, !.removed = @ \cup {sys}]
    /\ schLog' = Append(schLog, Invocation(schRun.i))
    /\ UNCHANGED <<schArgs, schPrep, schedOuterFrame>>

\* one iteration of the loop; the system calls schedule.addSystems(sys)
InvokeScheduledAdding ==
    /\ schRun.pc = "loop"
    /\ schRun.i < Len(schSystems)
    /\ \E sys \in SystemNames :
        /\ IndexOf(schSystems, sys) = -1
        /\ schSystems' = Append(schSystems, sys)
    /\ schRun' = [schRun EXCEPT !.i = @ + 1]
    /\ schLog' = Append(schLog, Invocation(schRun.i))
    /\ UNCHANGED <<schArgs, schPrep, schedOuterFrame>>

\* the loop ends and the promise of run() resolves
ScheduleRan ==
    /\ schRun.pc = "loop"
    /\ schRun.i >= Len(schSystems)
    /\ schRun' = [schRun EXCEPT !.pc = "idle"]
    /\ UNCHANGED <<schSystems, schArgs, schPrep, schLog, schedOuterFrame>>

\* calls made one after another, each promise awaited before the next call
NextScheduleRun ==
    \/ DoAddSystem
    \/ DoRemoveSystem
    \/ CallSchedulePrepare
    \/ PrepareSystem
    \/ SchedulePrepared
    \/ CallScheduleRun
    \/ InvokeScheduled
    \/ ScheduleRan

SpecScheduleRun == Init /\ [][NextScheduleRun]_vars

\* systems that add and remove systems while run() is in progress
NextScheduleLive ==
    \/ DoAddSystem
    \/ CallScheduleRun
    \/ InvokeScheduled
    \/ InvokeScheduledRemoving
    \/ InvokeScheduledAdding
    \/ ScheduleRan

SpecScheduleLive == Init /\ [][NextScheduleLive]_vars

----------------------------------------------------------------------------
(* The generational entity allocator (v3 Entities). A location is modelled *)
(* by its archetypeRow; INVALID is EntityLocation.INVALID. A result of     *)
(* Null is the null the call returned.                                     *)

MaxSlots == 2
MaxGeneration == 3
MIN_GENERATION == 1
Null == -2
Thrown == -3

Handle(index, generation) == [index |-> index, generation |-> generation]

\* the handles a caller can hold or forge
Handles == {Handle(i, g) : i \in 0 .. MaxSlots, g \in MIN_GENERATION .. MaxGeneration}

EMPTY_META == [generation |-> MIN_GENERATION, location |-> INVALID]

\* Entities.getMeta(entity) !== null
HasMeta(m, h) == h.index < Len(m) /\ m[h.index + 1].generation = h.generation

\* Entities.contains(entity)
contains(m, h) == HasMeta(m, h)

allocFrame == <<worldVars, despawned, storageVars, runVars, busVars, resVars,
                pluginVars, readVars, schedVars, filterVars, listenerVars, maskVars>>

\* an alloc that does not call verifyFlushed
AllocWithoutVerify ==
    /\ IF Len(freelist) > 0
       THEN LET index == freelist[Len(freelist)]
                entity == Handle(index, meta[index + 1].generation)
            IN /\ freelist' = SubSeq(freelist, 1, Len(freelist) - 1)
               /\ handed' = handed \cup {entity}
               /\ allocLast' = [op |-> "alloc", handle |-> entity, result |-> 0]
               /\ UNCHANGED meta
       ELSE /\ Len(meta) < MaxSlots
            /\ meta' = Append(meta, EMPTY_META)
            /\ handed' = handed \cup {Handle(Len(meta), MIN_GENERATION)}
            /\ allocLast' = [op |-> "alloc", handle |-> Handle(Len(meta), MIN_GENERATION),
                             result |-> 0]
            /\ UNCHANGED freelist
    /\ UNCHANGED <<allocPending, freeLog, allocFrame>>

\* Entities.alloc(); with entries pending verifyFlushed throws and nothing changes
Alloc ==
    /\ IF Len(allocPending) > 0
       THEN /\ allocLast' = [op |-> "alloc", handle |-> NoCall.handle, result |-> Thrown]
            /\ UNCHANGED <<meta, freelist, handed>>
       ELSE IF Len(freelist) > 0
       THEN LET index == freelist[Len(freelist)]
                entity == Handle(index, meta[index + 1].generation)
            IN /\ freelist' = SubSeq(freelist, 1, Len(freelist) - 1)
               /\ handed' = handed \cup {entity}
               /\ allocLast' = [op |-> "alloc", handle |-> entity, result |-> 0]
               /\ UNCHANGED meta
       ELSE /\ Len(meta) < MaxSlots
            /\ meta' = Append(meta, EMPTY_META)
            /\ handed' = handed \cup {Handle(Len(meta), MIN_GENERATION)}
            /\ allocLast' = [op |-> "alloc", handle |-> Handle(Len(meta), MIN_GENERATION),
                             result |-> 0]
            /\ UNCHANGED freelist
    /\ UNCHANGED <<allocPending, freeLog, allocFrame>>

\* Entities.free(entity): only the presence of #meta[entity.index] is tested
Free(h) ==
    /\ IF h.index >= Len(meta)
       THEN /\ allocLast' = [op |-> "free", handle |-> h, result |-> Null]
            /\ UNCHANGED <<meta, allocPending, freelist, freeLog>>
       ELSE /\ meta[h.index + 1].generation < MaxGeneration
            /\ meta' = [meta EXCEPT ![h.index + 1] =
                            [generation |-> @.generation + 1, location |-> INVALID]]
            /\ allocPending' = Append(allocPending, h.index)
            /\ freelist' = Append(freelist, h.index)
            /\ allocLast' = [op |-> "free", handle |-> h,
                             result |-> meta[h.index + 1].location]
            /\ freeLog' = IF HasMeta(meta, h)
                          THEN [ever |-> freeLog.ever \cup {h},
                                unflushed |-> freeLog.unflushed \cup {h}]
                          ELSE freeLog
    /\ UNCHANGED <<handed, allocFrame>>

\* Entities.flush(f) with a callback that leaves the allocator alone
AllocFlush ==
    /\ allocPending' = <<>>
    /\ allocLast' = [op |-> "flush", handle |-> NoCall.handle, result |-> 0]
    /\ freeLog' = [freeLog EXCEPT !.unflushed = {}]
    /\ UNCHANGED <<meta, freelist, handed, allocFrame>>

\* Entities.set(entity, location)
SetLocation(h, row) ==
    /\ meta' = IF HasMeta(meta, h) THEN [meta EXCEPT ![h.index + 1].location = row]
               ELSE meta
    /\ allocLast' = [op |-> "set", handle |-> h, result |-> 0]
    /\ UNCHANGED <<allocPending, freelist, handed, freeLog, allocFrame>>

DoAlloc == Alloc /\ UNCHANGED calls
DoFree == \E h \in Handles : Free(h) /\ UNCHANGED calls
DoAllocFlush == AllocFlush /\ UNCHANGED calls
DoSetLocation == \E h \in handed : SetLocation(h, 0) /\ UNCHANGED calls

NextAllocator ==
    \/ DoAlloc
    \/ DoFree
    \/ DoAllocFlush
    \/ DoSetLocation

SpecAllocator == Init /\ [][NextAllocator]_vars

\* Entities.clear()
AllocClear ==
    /\ meta' = <<>>
    /\ allocPending' = <<>>
    /\ freelist' = <<>>
    /\ allocLast' = [op |-> "clear", handle |-> NoCall.handle, result |-> 0]
    /\ UNCHANGED <<handed, freeLog, allocFrame>>

\* Entities.get(entity)
getLocation(m, h) ==
    IF ~HasMeta(m, h) \/ m[h.index + 1].location = INVALID THEN Null
    ELSE m[h.index + 1].location

\* the allocator with clear() among its calls, in runs of at most MaxCalls calls
CallAlloc == Tick /\ Alloc
CallFree == Tick /\ \E h \in Handles : Free(h)
CallAllocFlush == Tick /\ AllocFlush
CallSetLocation == Tick /\ \E h \in handed : SetLocation(h, 0)
CallAllocClear == Tick /\ AllocClear

NextAllocatorClear ==
    \/ CallAlloc
    \/ CallFree
    \/ CallAllocFlush
    \/ CallSetLocation
    \/ CallAllocClear

SpecAllocatorClear == Init /\ [][NextAllocatorClear]_vars

----------------------------------------------------------------------------
(* Flushes of a world whose entities are spawned, tagged and despawned,    *)
(* without a bound on the number of calls                                  *)

backfillFrame == <<calls, storageVars, otherVars>>

SpawnUnbounded == \E cs \in SpawnPayloads : Spawn(cs) /\ UNCHANGED <<despawned, backfillFrame>>
InsertTagUnbounded ==
    \E e \in Entities \ despawned : InsertTag(e, "P") /\ UNCHANGED <<despawned, backfillFrame>>
DespawnUnbounded == \E e \in Entities \ despawned : Despawn(e) /\ UNCHANGED backfillFrame
FlushUnbounded == Flush /\ UNCHANGED <<despawned, backfillFrame>>

NextBackfill ==
    \/ SpawnUnbounded
    \/ InsertTagUnbounded
    \/ DespawnUnbounded
    \/ FlushUnbounded

SpecBackfill == Init /\ [][NextBackfill]_vars

----------------------------------------------------------------------------
(* Entities spawned bare: every pending value comes from an insert *)

DoSpawnBare == Tick /\ Spawn(<<>>) /\ UNCHANGED <<despawned, storageVars, otherVars>>

NextInsert ==
    \/ DoSpawnBare
    \/ DoInsert
    \/ DoInsertTag
    \/ DoRemove
    \/ DoFlush

SpecInsert == Init /\ [][NextInsert]_vars

----------------------------------------------------------------------------
(* Properties of the world: locations, columns, archetypes *)

isAlive(e) == loc[e].tableId # 0

Flushed == Len(destinations) = 0

\* the Entity column of table t holds handle e at row r
EntityStoredAt(e, t, r) ==
    /\ hasColumn(t, EntityType)
    /\ ArrGet(t.cols[ColumnIndex(t, EntityType) + 1], r) = EntityVal(e)

\* C1: after a flush, every live entity is stored in the Entity column of the table
\* its location names, at exactly the row its location names.
C1_LocationConsistency ==
    Flushed =>
        \A e \in Entities :
            isAlive(e) =>
                /\ loc[e].tableId + 1 \in 1 .. Len(tables)
                /\ EntityStoredAt(e, tables[loc[e].tableId + 1], loc[e].tableRow)

EntityColumnLength(t) ==
    IF hasColumn(t, EntityType) THEN ArrLen(t.cols[ColumnIndex(t, EntityType) + 1]) ELSE 0

\* C2: after a flush, every column of every table has the length of that table's
\* Entity column.
C2_ColumnParity ==
    Flushed =>
        \A i \in 1 .. Len(tables) :
            \A k \in 1 .. Len(tables[i].cols) :
                ArrLen(tables[i].cols[k]) = EntityColumnLength(tables[i])

\* C5: once despawn(e) has been called, no later insert, insertTag or remove on e
\* stages a non-zero destination for e, and after the flush e is not alive.
C5_DespawnIsFinal ==
    \A e \in despawned :
        /\ getDestination(destinations, e) \in {Absent, 0}
        /\ getDestination(destinations, e) = Absent => ~isAlive(e)

WellFormedArchetype(a) == a = 0 \/ Bit(a, 0) = 1

\* C6: every archetype staged as a destination or held by a table is 0 or has
\* bit 0 (the Entity component) set.
C6_EntityBitAlwaysSet ==
    /\ \A k \in 1 .. Len(destinations) : WellFormedArchetype(destinations[k].a)
    /\ \A i \in 1 .. Len(tables) : WellFormedArchetype(tables[i].archetype)

----------------------------------------------------------------------------
(* Properties of queries *)

\* the component types an archetype denotes under the current registry
TypesIn(archetype) ==
    {components[i + 1] : i \in {j \in 0 .. (Len(components) - 1) : Bit(archetype, j) = 1}}

\* what the query descriptor asks for: Entity and every non-Maybe accessor present,
\* With types present, Without types absent
Denotes(d, archetype) ==
    /\ EntityType \in TypesIn(archetype)
    /\ \A k \in 1 .. Len(d.accessors) :
            ~d.accessors[k].maybe => d.accessors[k].type \in TypesIn(archetype)
    /\ d.filter.op = "With" =>
            \A k \in 1 .. Len(d.filter.types) : d.filter.types[k] \in TypesIn(archetype)
    /\ d.filter.op = "Without" =>
            \A k \in 1 .. Len(d.filter.types) : d.filter.types[k] \notin TypesIn(archetype)

TimesYielded(ys, tableId, row) ==
    Cardinality({k \in 1 .. Len(ys) : ys[k].table = tableId /\ ys[k].row = row})

\* C3: one iteration of a query yields every row of every table whose archetype
\* matches the query exactly once and no row of any other table (in every state,
\* so in particular after each flush).
C3_QuerySoundness ==
    \A qid \in DOMAIN queries :
        LET ys == Iterate(queries[qid], tables)
        IN /\ \A i \in 1 .. Len(tables) :
                \A r \in 0 .. (EntityColumnLength(tables[i]) - 1) :
                    TimesYielded(ys, tables[i].id, r) =
                        IF Denotes(QueryCatalog[qid], tables[i].archetype) THEN 1 ELSE 0
           /\ \A k \in 1 .. Len(ys) :
                \E i \in 1 .. Len(tables) :
                    /\ tables[i].id = ys[k].table
                    /\ ys[k].row < EntityColumnLength(tables[i])

\* a flushed world in which a constructed query yields two rows while another
\* populated table does not match it
C3_Witness ==
    /\ Flushed
    /\ \E qid \in DOMAIN queries :
        /\ Len(Iterate(queries[qid], tables)) >= 2
        /\ \E i \in 1 .. Len(tables) :
            /\ EntityColumnLength(tables[i]) > 0
            /\ ~Denotes(QueryCatalog[qid], tables[i].archetype)

Staging == DoSpawn \/ DoDespawn \/ DoInsert \/ DoInsertTag \/ DoRemove

\* C4: spawn, insert, insertTag, remove and despawn change no table column, no
\* location of an existing entity and no query's length or yielded rows.
C4_StagingIsInvisible ==
    [][Staging =>
        /\ tables' = tables
        /\ \A e \in Entities : loc'[e] = loc[e]
        /\ \A qid \in DOMAIN queries :
            /\ qid \in DOMAIN queries'
            /\ QueryLength(queries'[qid], tables') = QueryLength(queries[qid], tables)
            /\ Iterate(queries'[qid], tables') = Iterate(queries[qid], tables)]_vars

\* a query that yields rows while a change of a resident entity is staged
C4_Witness ==
    /\ \E qid \in DOMAIN queries : QueryLength(queries[qid], tables) > 0
    /\ \E k \in 1 .. Len(destinations) :
        /\ isAlive(destinations[k].e)
        /\ destinations[k].a # getTableArchetype(tables, loc, destinations[k].e)

----------------------------------------------------------------------------
(* Properties of the table registry of the world *)

\* C7: no two tables of the registry have the same archetype.
C7_ArchetypeUniqueness ==
    \A i, j \in 1 .. Len(tables) :
        tables[i].archetype = tables[j].archetype => i = j

\* several tables exist and one of them was acquired for two entities
C7_Witness ==
    /\ Len(tables) >= 3
    /\ \E i \in 1 .. Len(tables) : EntityColumnLength(tables[i]) >= 2

----------------------------------------------------------------------------
(* Properties of the Storage registry *)

\* C9: every table Storage has created (ids 0 .. _nextTableId) is still in the
\* registry and Storage.getTable(id) resolves to the table with that id.
C9_TablesOnlyGrow ==
    \A id \in 0 .. sNextTableId :
        /\ \E i \in 1 .. Len(sTables) : sTables[i].id = id
        /\ StorageGetTable(sTables, id) # Undef
        /\ StorageGetTable(sTables, id).id = id

----------------------------------------------------------------------------
(* Properties of Table.move *)

\* C10: Table.move with row < 0 or a row past the end of the source table changes
\* no column of any table and no entity's location.
C10_InvalidMoveIsNoOp ==
    [][DoDirectMove => (tables' = tables /\ loc' = loc)]_vars

----------------------------------------------------------------------------
(* Properties of a failing flush *)

\* C11: a flush that fails leaves the world as before the call (existing tables,
\* locations and staging maps unchanged) or with every staged change applied.
C11_FlushIsAtomic ==
    [][\A bad \in ListenerFaults :
        (Tick /\ FlushNotifying(bad) /\ FlushOutcome(bad).threw) =>
            \/ /\ \A i \in 1 .. Len(tables) : tables'[i] = tables[i]
               /\ loc' = loc
               /\ destinations' = destinations
               /\ pending' = pending
            \/ /\ tables' = FlushOutcome({}).w.tables
               /\ loc' = FlushOutcome({}).loc
               /\ destinations' = <<>>]_vars

----------------------------------------------------------------------------
(* Properties of schedules and World.run *)

IsEvent(e, ev, t, sched) == e.ev = ev /\ e.task = t /\ e.sched = sched

\* the position of a system in the list of its schedule
SystemIndex(sched, sys) == IndexOf(systems[sched], sys) + 1

\* C12: within one Schedule.run the systems are invoked in list order, each at
\* most once, and a system is invoked only after every system before it in the
\* list has been invoked and its promise has fulfilled, so that no effect of an
\* earlier system follows the invocation of a later one.
C12_SystemsRunSequentially ==
    \A k \in 1 .. Len(log) :
        log[k].ev = "invoke" =>
            LET t == log[k].task
                sched == log[k].sched
                idx == SystemIndex(sched, log[k].sys)
            IN /\ \A j \in 1 .. (idx - 1) :
                    \E p \in 1 .. (k - 1), q \in 1 .. (k - 1) :
                        /\ p < q
                        /\ IsEvent(log[p], "invoke", t, sched)
                        /\ IsEvent(log[q], "settle", t, sched)
                        /\ log[p].sys = systems[sched][j]
                        /\ log[q].sys = systems[sched][j]
               /\ \A m \in (k + 1) .. Len(log) :
                    /\ IsEvent(log[m], "invoke", t, sched) =>
                            SystemIndex(sched, log[m].sys) > idx
                    /\ IsEvent(log[m], "effect", t, sched) =>
                            SystemIndex(sched, log[m].sys) >= idx

\* u2 was invoked after u1 had staged a spawn while it was awaited
C12_Witness ==
    \E k \in 1 .. Len(log), p \in 1 .. Len(log) :
        /\ p < k
        /\ log[k].ev = "invoke" /\ log[k].sys = "u2"
        /\ log[p].ev = "effect" /\ log[p].sys = "u1" /\ log[p].task = log[k].task

Failed(e) == e.ev \in {"throw", "reject"}

\* C13: when a system throws or rejects, the run() call rejects with the error of
\* that system and invokes no further system.
C13_ErrorAbortsRun ==
    \A k \in 1 .. Len(log) :
        Failed(log[k]) =>
            /\ tasks[log[k].task].pc = "rejected"
            /\ tasks[log[k].task].err = log[k].sys
            /\ \A m \in (k + 1) .. Len(log) :
                    ~(log[m].task = log[k].task /\ log[m].ev = "invoke")

\* a run that u1 aborted, followed by a further run
C13_Witness ==
    /\ Len(tasks) = 2
    /\ tasks[1].pc = "rejected"
    /\ tasks[1].err = "u1"
    /\ \E k \in 1 .. Len(log) : log[k].task = 2 /\ log[k].ev = "invoke"

\* the systems a run call has invoked, in order, as <<schedule, system>> pairs
RECURSIVE InvokedBy(_, _)
InvokedBy(t, k) ==
    IF k = 0 THEN <<>>
    ELSE IF log[k].ev = "invoke" /\ log[k].task = t
         THEN Append(InvokedBy(t, k - 1), <<log[k].sched, log[k].sys>>)
         ELSE InvokedBy(t, k - 1)

UpdateCycle ==
    <<<<"PreUpdate", "pre">>, <<"Update", "u1">>, <<"Update", "u2">>,
      <<"PostUpdate", "post">>>>

StartupCompletedBefore(k) ==
    \E p \in 1 .. (k - 1) : log[p].ev = "end" /\ log[p].sched = "Startup"

IsPrefix(a, b) == Len(a) <= Len(b) /\ SubSeq(b, 1, Len(a)) = a

C15_FlushTiming ==
    \A k \in 1 .. Len(log) :
        /\ timing = "custom" => log[k].ev # "flush"
        /\ (timing = "before" /\ log[k].ev = "begin") =>
                /\ k > 1
                /\ IsEvent(log[k - 1], "flush", log[k].task, log[k].sched)
        /\ (timing = "after" /\ log[k].ev = "end" /\ k < Len(log)) =>
                IsEvent(log[k + 1], "flush", log[k].task, log[k].sched)
        /\ (timing = "after" /\ log[k].ev \in {"begin", "return"} /\ k > 1
                /\ log[k - 1].ev # "call") =>
                log[k - 1].ev = "flush" /\ log[k - 1].task = log[k].task

\* with timing "after", a run completed and its flush moved a spawned entity into
\* a table
C15_Witness ==
    /\ timing = "after"
    /\ \E t \in 1 .. Len(tasks) : tasks[t].pc = "done"
    /\ \E e \in Entities : isAlive(e)

\* C16: the step in which a system fails changes neither the staged destinations
\* nor the pending payloads, and the run it aborted never flushes afterwards.
C16_ThrowPreservesStaging ==
    [][\A t \in 1 .. Len(tasks) :
        /\ (tasks[t].pc # "rejected" /\ tasks'[t].pc = "rejected") =>
                /\ destinations' = destinations
                /\ pending' = pending
                /\ tasks'[t].flushes = 0
        /\ tasks[t].pc = "rejected" =>
                /\ tasks'[t] = tasks[t]
                /\ Len(log') > Len(log) => log'[Len(log')].task # t]_vars

\* a run aborted while a spawn staged by a system is still waiting for a flush
C16_Witness ==
    /\ Len(destinations) > 0
    /\ \E t \in 1 .. Len(tasks) : tasks[t].pc = "rejected"
    /\ \A t \in 1 .. Len(tasks) : Settled(tasks[t])

----------------------------------------------------------------------------
(* Properties of the event bus *)

\* the calls after which the callback has been subscribed without interruption
RECURSIVE SubscribedSince(_, _)
SubscribedSince(callback, k) ==
    IF k = 0 THEN 0
    ELSE IF busOps[k].op = "clear"
            \/ (busOps[k].op = "unsubscribe" /\ busOps[k].callback = callback)
         THEN 0
         ELSE LET earlier == SubscribedSince(callback, k - 1)
              IN IF earlier # 0 THEN earlier
                 ELSE IF busOps[k].op = "subscribe" /\ busOps[k].callback = callback
                      THEN k ELSE 0

\* the priority the callback was last subscribed with
RECURSIVE LastPriority(_, _)
LastPriority(callback, k) ==
    IF k = 0 THEN 0
    ELSE IF busOps[k].op = "subscribe" /\ busOps[k].callback = callback
         THEN busOps[k].priority
         ELSE LastPriority(callback, k - 1)

\* the call that gave the callback the priority it has
RECURSIVE PrioritySince(_, _)
PrioritySince(callback, k) ==
    IF k = 0 THEN 0
    ELSE IF busOps[k].op = "clear"
            \/ (busOps[k].op = "unsubscribe" /\ busOps[k].callback = callback)
         THEN 0
         ELSE IF busOps[k].op = "subscribe" /\ busOps[k].callback = callback
              THEN IF /\ SubscribedSince(callback, k - 1) # 0
                      /\ LastPriority(callback, k - 1) = busOps[k].priority
                   THEN PrioritySince(callback, k - 1)
                   ELSE k
              ELSE PrioritySince(callback, k - 1)

\* C17: an emission invokes the subscribers in ascending priority and subscribers
\* of equal priority in insertion order, whether a re-subscribed callback counts
\* as inserted when it was first subscribed or when it took its priority.
C17_EmitInPriorityOrder ==
    (Len(busOps) > 0 /\ busOps[Len(busOps)].op = "emit") =>
        \A i, j \in 1 .. Len(invoked) :
            i < j =>
                LET pi == LastPriority(invoked[i], Len(busOps))
                    pj == LastPriority(invoked[j], Len(busOps))
                IN /\ pi <= pj
                   /\ pi = pj =>
                        \/ SubscribedSince(invoked[i], Len(busOps))
                            < SubscribedSince(invoked[j], Len(busOps))
                        \/ PrioritySince(invoked[i], Len(busOps))
                            < PrioritySince(invoked[j], Len(busOps))

SubscribedNow == {c \in Callbacks : SubscribedSince(c, Len(busOps)) # 0}

\* C18: no callback appears twice in the subscriber list; the list holds exactly
\* the callbacks subscribed and not unsubscribed since, whatever the number of
\* subscribe calls made for each.
C18_NoDuplicateSubscribers ==
    /\ \A i, j \in 1 .. Len(subscribers) :
        subscribers[i].callback = subscribers[j].callback => i = j
    /\ {subscribers[k].callback : k \in 1 .. Len(subscribers)} = SubscribedNow
    /\ Len(subscribers) = Cardinality(SubscribedNow)

\* a callback subscribed twice in a row, the second time with another priority,
\* next to another subscriber
C18_Witness ==
    /\ Len(subscribers) = 2
    /\ \E k \in 2 .. Len(busOps) :
        /\ busOps[k].op = "subscribe" /\ busOps[k - 1].op = "subscribe"
        /\ busOps[k].callback = busOps[k - 1].callback
        /\ busOps[k].priority # busOps[k - 1].priority

----------------------------------------------------------------------------
(* Properties of the resources *)

InsertThenGet ==
    /\ Len(resOps) >= 2
    /\ resOps[Len(resOps) - 1].op = "insertResource"
    /\ resOps[Len(resOps)].op = "getResource"
    /\ resOps[Len(resOps)].type = resOps[Len(resOps) - 1].type

\* C19: getResource(type(r)) right after insertResource(r) returns r, and
\* insertResource leaves one resource of the type where there was none and as
\* many as before where there was one: it replaces, it does not duplicate.
C19_InsertThenGet ==
    /\ InsertThenGet => returned = resOps[Len(resOps) - 1].res
    /\ (Len(resOps) >= 1 /\ resOps[Len(resOps)].op = "insertResource") =>
        LET op == resOps[Len(resOps)]
        IN CountOfType(resources, op.type) = IF op.before = 0 THEN 1 ELSE op.before

\* the insertion replaced a resource of the type and the lookup returned the new one
C19_Witness ==
    /\ InsertThenGet
    /\ resOps[Len(resOps) - 1].before = 1
    /\ returned = resOps[Len(resOps) - 1].res
    /\ Len(resources) = 2

----------------------------------------------------------------------------
(* Properties of prepare *)

\* C20: when prepare() resolves, every promise a plugin has returned to addPlugin
\* so far has settled.
C20_PrepareAwaitsPlugins ==
    prep.pc = "resolved" => prep.unsettled = {}

----------------------------------------------------------------------------
(* Properties of has *)

\* the archetype of the table the location of e names
ResidenceArchetype(e) == tables[loc[e].tableId + 1].archetype

\* the staged destination of e differs from the archetype of its table in the type
StagedDiffers(e, type) ==
    /\ getDestination(destinations, e) # Absent
    /\ (type \in TypesIn(getDestination(destinations, e)))
            # (type \in TypesIn(ResidenceArchetype(e)))

\* C21: has(entity, type) returns whether the type is in the archetype of the table
\* the entity resides in, whatever has been staged for the entity.
C21_HasReadsCurrentTable ==
    [][hasResult' # hasResult =>
            hasResult'.value =
                (hasResult'.type \in TypesIn(ResidenceArchetype(hasResult'.e)))]_vars

\* has was asked about a type whose bit the staged destination would flip, once
\* with the answer true and the entity in a table with rows
C21_Witness ==
    /\ hasResult # NoHas
    /\ hasResult.value
    /\ hasResult.type # EntityType
    /\ StagedDiffers(hasResult.e, hasResult.type)

----------------------------------------------------------------------------
(* Properties of Query.get *)

\* C22: for an entity spawned with [a, b] and flushed, get on the query over the
\* types of a and b returns [a, b], whatever other entities the world holds.
C22_GetReturnsSpawned ==
    [][(getResult' # getResult
            /\ spawnedWith[getResult'.e] # <<>>
            /\ getDestination(destinations, getResult'.e) = Absent)
        => /\ getResult'.kind = "row"
           /\ getResult'.elements = spawnedWith[getResult'.e]]_vars

----------------------------------------------------------------------------
(* Properties of Schedule.prepare *)

\* C23: when a prepare() completes, _args holds exactly one tuple per system of
\* the schedule, each made by this call for the system at its index.
C23_OneTuplePerSystem ==
    [][(schPrep.pc = "loop" /\ schPrep'.pc = "idle") =>
            /\ Len(schArgs') = Len(schSystems')
            /\ \A k \in 1 .. Len(schSystems') :
                    schArgs'[k] = ArgsOf(schSystems'[k], schPrep'.gen)]_vars

----------------------------------------------------------------------------
(* Properties of query construction *)

\* the query of the catalog, constructed now
ConstructedNow(qid) == NewQuery(QueryCatalog[qid], components, tables)

----------------------------------------------------------------------------
(* Properties of the generational allocator *)

\* C25: alloc never returns a handle that shares its index with a handle it has
\* returned before and for which contains() is true at the call.
C25_LiveIndicesDistinct ==
    [][(allocLast'.op = "alloc" /\ <<meta, freelist>> # <<meta', freelist'>>) =>
            \A h \in handed :
                contains(meta, h) => h.index # allocLast'.handle.index]_vars

\* C26: free on a handle that is not valid (index never allocated, or generation
\* stale) returns null and changes neither the generations nor the two lists.
C26_FreeInvalidIsNoOp ==
    [][(allocLast'.op = "free" /\ ~HasMeta(meta, allocLast'.handle)
            /\ allocVars' # allocVars) =>
            /\ allocLast'.result = Null
            /\ UNCHANGED <<meta, allocPending, freelist>>]_vars

----------------------------------------------------------------------------
(* Properties of the back-fill of a flush *)

\* the state of Entities.flush() after its first i staged entities
FlushState(i) ==
    flushLoop([w |-> World, loc |-> loc, threw |-> FALSE],
              SubSeq(destinations, 1, i), pending, 1)

SourceIndex(st, entry) == st.loc[entry.e].tableId + 1

\* the next staged entity sits at a row of its table that is not the last one and
\* is about to be moved to another table
BackfillCase(st, entry) ==
    LET src == st.w.tables[SourceIndex(st, entry)]
        row == st.loc[entry.e].tableRow
    IN /\ entry.a # src.archetype
       /\ hasColumn(src, EntityType)
       /\ row >= 0
       /\ row < EntityColumnLength(src) - 1
       /\ EntityStoredAt(entry.e, src, row)

\* the entity of the last row now holds the vacated row in every column and in its
\* location; every other row and every other location is as before
BackfillDone(st, after, entry) ==
    LET si == SourceIndex(st, entry)
        src == st.w.tables[si]
        now == after.w.tables[si]
        row == st.loc[entry.e].tableRow
        lastRow == EntityColumnLength(src) - 1
        last == ArrGet(src.cols[ColumnIndex(src, EntityType) + 1], lastRow).v
    IN /\ \A c \in 1 .. Len(src.comps) :
            /\ ArrGet(now.cols[c], row) = ArrGet(src.cols[c], lastRow)
            /\ \A k \in 0 .. (lastRow - 1) :
                    k # row => ArrGet(now.cols[c], k) = ArrGet(src.cols[c], k)
       /\ after.loc[last].tableRow = row
       /\ \A x \in DOMAIN st.loc :
            x \notin {entry.e, last} => after.loc[x] = st.loc[x]

\* C27: when a flush moves the entity of a row that is not the last one out of a
\* table, the entity of the last row takes that row in every column and in its
\* location before the next staged entity is processed, and no other row changes.
C27_BackfillRelocates ==
    \A i \in 1 .. Len(destinations) :
        LET st == FlushState(i - 1)
        IN (~st.threw /\ BackfillCase(st, destinations[i])) =>
                BackfillDone(st, FlushState(i), destinations[i])

----------------------------------------------------------------------------
(* Properties of insert *)

ValuesOfType(cs, type) == {k \in 1 .. Len(cs) : cs[k].type = type}

\* the value the row of e holds for the type: the column of its table at its row
RowValue(tbls, locs, e, type) ==
    LET t == tbls[locs[e].tableId + 1]
    IN IF hasColumn(t, type) THEN ArrGet(t.cols[ColumnIndex(t, type) + 1], locs[e].tableRow)
       ELSE Undef

\* C28: the pending payload of an entity holds at most one value per component
\* type, an insert leaves its instance as that value, and a flush leaves in the
\* entity's row the pending value of each type the entity still has.
C28_LastInsertWins ==
    [][/\ \A e \in DOMAIN pending', type \in AllTypes :
            Cardinality(ValuesOfType(pending'[e], type)) <= 1
       /\ \A e \in Entities, n \in 1 .. MaxVal :
            Insert(e, PVal(n)) =>
                \E k \in 1 .. Len(pending'[e]) : pending'[e][k] = PVal(n)
       /\ (Len(destinations) > 0 /\ Len(destinations') = 0) =>
            \A e \in DOMAIN pending :
                \A k \in 1 .. Len(pending[e]) :
                    LET instance == pending[e][k]
                    IN (/\ e \notin despawned
                        /\ instance.type # EntityType
                        /\ instance.type \in TypesIn(getDestination(destinations, e))
                        /\ EntityType \in TypesIn(getDestination(destinations, e)))
                       => RowValue(tables', loc', e, instance.type) = instance]_vars

(* Filter trees: a query is constructed from a tree of With, Without, And and Or *)

filterFrame == <<tables, archetypeToTable, emitted, nextId, loc, destinations, pending,
                 calls, despawned, storageVars, runVars, busVars, resVars, pluginVars,
                 readVars, schedVars, allocVars, listenerVars, maskVars>>

MaxChildren == 2

\* the type lists of the leaves: component classes of the program
LeafTypeLists == {<<"P">>, <<"T">>, <<"P", "T">>}

FilterLeaves == {With(ts) : ts \in LeafTypeLists} \cup {Without(ts) : ts \in LeafTypeLists}

ChildLists(S) == UNION {[1 .. n -> S] : n \in 0 .. MaxChildren}

Combined(S) == {And(fs) : fs \in ChildLists(S)} \cup {Or(fs) : fs \in ChildLists(S)}

\* the trees of depth at most two over the leaves
FilterTrees == Combined(FilterLeaves \cup Combined(FilterLeaves))
                    \cup Combined(FilterLeaves) \cup FilterLeaves

AccessorLists == {<<Acc(EntityType)>>, <<Acc("P")>>}

\* world.getComponentId(type) called by the program before the query exists
RegisterComponent ==
    /\ ~built.made
    /\ \E t \in UserTypes :
        /\ IndexOf(components, t) = -1
        /\ components' = RegisterType(components, t)
        /\ UNCHANGED <<queries, built, filterFrame>>

\* new Query(world, accessors, filter)
ConstructFiltered ==
    /\ ~built.made
    /\ \E accessors \in AccessorLists, f \in FilterTrees :
        LET d == [accessors |-> accessors, individual |-> TRUE, filter |-> f]
        IN /\ components' = ComponentsAfterQuery(components, d)
           /\ queries' = ("qF" :> NewQuery(d, components, tables)) @@ queries
           /\ built' = [accessors |-> accessors, individual |-> TRUE, filter |-> f,
                        made |-> TRUE]
           /\ UNCHANGED filterFrame

NextFilter == RegisterComponent \/ ConstructFiltered

SpecFilter == Init /\ [][NextFilter]_vars

(* Properties of the filter algebra *)

\* the Boolean formula a filter tree denotes, read on an archetype
RECURSIVE Satisfies(_, _)
Satisfies(f, archetype) ==
    IF f.op = "With" THEN \A k \in 1 .. Len(f.types) : f.types[k] \in TypesIn(archetype)
    ELSE IF f.op = "Without"
        THEN \A k \in 1 .. Len(f.types) : f.types[k] \notin TypesIn(archetype)
    ELSE IF f.op = "And"
        THEN \A i \in 1 .. Len(f.children) : Satisfies(f.children[i], archetype)
    ELSE IF f.op = "Or"
        THEN \E i \in 1 .. Len(f.children) : Satisfies(f.children[i], archetype)
    ELSE TRUE

HoldsAccessors(d, archetype) ==
    /\ EntityType \in TypesIn(archetype)
    /\ \A k \in 1 .. Len(d.accessors) :
            ~d.accessors[k].maybe => d.accessors[k].type \in TypesIn(archetype)

----------------------------------------------------------------------------
(* Properties of the Maybe accessor *)

MaybeSlots(d) == {k \in 1 .. Len(d.accessors) : d.accessors[k].maybe}

\* the value the column of the type holds at the row, undefined without a column
ColumnValue(t, type, row) ==
    IF hasColumn(t, type) THEN ArrGet(t.cols[ColumnIndex(t, type) + 1], row) ELSE Undef

----------------------------------------------------------------------------
(* Properties of pairs *)

RowOf(y) == <<y.table, y.row>>

\* C31: pairs() of a query that matches n rows yields n(n-1)/2 pairs, each
\* unordered pair of distinct rows exactly once, and never a row with itself.
C31_PairsOnce ==
    \A qid \in DOMAIN queries :
        LET ys == Iterate(queries[qid], tables)
            ps == pairs(queries[qid], tables)
            n == Len(ys)
        IN /\ Len(ps) * 2 = n * (n - 1)
           /\ \A k \in 1 .. Len(ps) : RowOf(ps[k].first) # RowOf(ps[k].second)
           /\ \A a, b \in 1 .. n :
                a < b =>
                    Cardinality({k \in 1 .. Len(ps) :
                        {RowOf(ps[k].first), RowOf(ps[k].second)}
                            = {RowOf(ys[a]), RowOf(ys[b])}}) = 1

\* a query that matches three rows, so that pairs() yields three pairs
C31_Witness ==
    \E qid \in DOMAIN queries :
        /\ Len(Iterate(queries[qid], tables)) = 3
        /\ Len(pairs(queries[qid], tables)) = 3

----------------------------------------------------------------------------
(* Properties of Schedule.run *)

\* C32: run invokes each system with a tuple that prepare resolved from that
\* same system (or with none, when none was resolved at its index).
C32_ArgsOfSameSystem ==
    \A k \in 1 .. Len(schLog) :
        schLog[k].args = NoArgs \/ schLog[k].args.sys = schLog[k].sys

TimesInvoked(sys) == Cardinality({k \in 1 .. Len(schLog) : schLog[k].sys = sys})

\* C33: when a run ends, every system that was in the schedule when it started and
\* was not removed during it has been invoked exactly once.
C33_EachSystemOnce ==
    (schRun.pc = "idle" /\ schRun.gen > 0) =>
        \A sys \in schRun.started \ schRun.removed : TimesInvoked(sys) = 1

----------------------------------------------------------------------------
(* Properties of overlapping World.run calls *)

\* the call had not settled when the k-th event was logged
UnsettledAt(t, k) ==
    \A p \in 1 .. (k - 1) :
        log[p].task = t => log[p].ev \notin {"return", "throw", "reject"}

StartupRuns == {m \in 1 .. Len(log) : log[m].ev = "begin" /\ log[m].sched = "Startup"}

\* C34: when run() is called again before an earlier run() call has settled, the
\* Startup schedule is executed at most once.
C34_StartupOnceUnderOverlap ==
    \A k \in 1 .. Len(log) :
        (/\ log[k].ev = "call"
         /\ \E t \in 1 .. (log[k].task - 1) : UnsettledAt(t, k))
            => Cardinality(StartupRuns) <= 1

----------------------------------------------------------------------------
(* Properties of overlapping getResource calls *)

OpsOfKind(op, upTo) == {k \in 1 .. upTo : resOps[k].op = op}

\* the position in resOps of the n-th continuation after fromWorld; the awaits
\* resume in the order the calls were made
NthResolved(n) ==
    CHOOSE k \in OpsOfKind("resolved", Len(resOps)) :
        Cardinality(OpsOfKind("resolved", k)) = n

\* C35: two getResource(T) calls, the second made while the first awaits
\* T.fromWorld, resolve to the same instance, and the registry then holds exactly
\* one resource of type T.
C35_OverlappingGetResource ==
    \A p \in 1 .. (Len(resOps) - 1) :
        LET n == Cardinality(OpsOfKind("fromWorld", p))
        IN (/\ resOps[p].op = "fromWorld"
            /\ resOps[p + 1].op = "fromWorld"
            /\ resOps[p + 1].type = resOps[p].type
            /\ Cardinality(OpsOfKind("resolved", Len(resOps))) >= n + 1)
           => /\ resOps[NthResolved(n)].res = resOps[NthResolved(n + 1)].res
              /\ CountOfType(resources, resOps[p].type) = 1

----------------------------------------------------------------------------
(* World event listeners: addEventListener, removeEventListener, start *)

ListenerNames == {"l1", "l2", "l3"}
MaxListeners == 3

listenerFrame == <<worldVars, calls, despawned, storageVars, runVars, busVars, resVars,
                   pluginVars, readVars, schedVars, allocVars, filterVars, maskVars>>

\* World.addEventListener("start", listener)
AddEventListener(listener) ==
    /\ Len(startListeners) < MaxListeners
    /\ startListeners' = Append(startListeners, listener)
    /\ UNCHANGED <<startInvoked, listenerFrame>>

\* arr.splice(start, 1) with start = -1 when indexOf found nothing: a negative
\* start counts from the end of the array
SpliceOne(arr, start) ==
    LET k == IF start < 0 THEN (IF Len(arr) + start < 0 THEN 0 ELSE Len(arr) + start)
             ELSE start
    IN SubSeq(arr, 1, k) \o SubSeq(arr, k + 2, Len(arr))

\* World.removeEventListener("start", listener)
RemoveEventListener(listener) ==
    /\ startListeners' = SpliceOne(startListeners, IndexOf(startListeners, listener))
    /\ UNCHANGED <<startInvoked, listenerFrame>>

\* World.start(): every listener of the list, in order
EmitStart ==
    /\ startInvoked' = startListeners
    /\ UNCHANGED <<startListeners, listenerFrame>>

DoAddEventListener == \E listener \in ListenerNames : AddEventListener(listener)
DoRemoveEventListener == \E listener \in ListenerNames : RemoveEventListener(listener)

NextListeners == DoAddEventListener \/ DoRemoveEventListener \/ EmitStart

SpecListeners == Init /\ [][NextListeners]_vars

\* C36: removeEventListener with a listener that is not registered for the event
\* leaves the listener list of the event unchanged.
C36_RemoveUnknownListener ==
    [][\A listener \in ListenerNames :
            (/\ RemoveEventListener(listener)
             /\ \A k \in 1 .. Len(startListeners) : startListeners[k] # listener)
                => startListeners' = startListeners]_vars

----------------------------------------------------------------------------
(* Properties of an emission whose callbacks change the bus *)

TimesCalled(callback) == Cardinality({k \in 1 .. Len(invoked) : invoked[k] = callback})

\* C37: when an emit has returned, every callback that was subscribed when it
\* started and was not unsubscribed during it has been invoked exactly once.
C37_EachSubscriberOnce ==
    emission.pc = "done" =>
        \A callback \in emission.atStart \ emission.removed : TimesCalled(callback) = 1

----------------------------------------------------------------------------
(* Two World instances and the component masks of v2 Entities *)

WorldIds == {1, 2}

ComponentsOf(w) == IF w = 1 THEN components ELSE otherComponents

maskFrame == <<tables, archetypeToTable, emitted, nextId, loc, destinations, pending,
               queries, calls, despawned, storageVars, runVars, busVars, resVars,
               pluginVars, readVars, schedVars, allocVars, filterVars, listenerVars>>

SetComponentsOf(w, comps) ==
    /\ w = 1 => components' = comps /\ UNCHANGED otherComponents
    /\ w = 2 => otherComponents' = comps /\ UNCHANGED components

\* world.getComponentId(type) of world w, made by a query or a table lookup
GetComponentIdIn(w, type) ==
    /\ IndexOf(ComponentsOf(w), type) = -1
    /\ SetComponentsOf(w, RegisterType(ComponentsOf(w), type))
    /\ UNCHANGED <<componentMasks, lastMask, maskFrame>>

\* COMPONENT_MASKS.get(type), set from the id of world w when the cache has none
CachedMask(w, type) ==
    IF componentMasks[type] = Absent THEN 2 ^ getComponentId(ComponentsOf(w), type)
    ELSE componentMasks[type]

\* Entities.getComponentMask(type) of world w, as spawn, insert, insertTag and
\* remove call it: the id of this world, then the mask the cache holds for the class
GetComponentMaskIn(w, type) ==
    /\ SetComponentsOf(w, RegisterType(ComponentsOf(w), type))
    /\ componentMasks' = [componentMasks EXCEPT ![type] = CachedMask(w, type)]
    /\ lastMask' = [world |-> w, type |-> type, mask |-> CachedMask(w, type)]
    /\ UNCHANGED maskFrame

DoGetComponentIdIn == \E w \in WorldIds, type \in UserTypes : GetComponentIdIn(w, type)
DoGetComponentMaskIn == \E w \in WorldIds, type \in UserTypes : GetComponentMaskIn(w, type)

NextMasks == DoGetComponentIdIn \/ DoGetComponentMaskIn

SpecMasks == Init /\ [][NextMasks]_vars

\* C38: the bit staged for a component type in a world is 1 << getComponentId(type)
\* of that world, whatever the other world has registered.
C38_MaskOfOwnWorld ==
    lastMask # NoMask =>
        lastMask.mask = 2 ^ IndexOf(ComponentsOf(lastMask.world), lastMask.type)

----------------------------------------------------------------------------
(* Properties of freed handles *)

\* C39: a handle that was freed while it was valid is never contained again, and
\* get never returns a location for it, whatever calls follow.
C39_FreedStaysDead ==
    \A h \in freeLog.ever : ~contains(meta, h) /\ getLocation(meta, h) = Null

AllocCalled == allocLast'.op = "alloc" /\ allocVars' # allocVars

\* C40: an alloc made while an entity freed since the last flush is outstanding
\* throws, and an alloc made right after a flush returns a handle.
C40_AllocNeedsFlush ==
    [][AllocCalled =>
        /\ freeLog.unflushed # {} => allocLast'.result = Thrown
        /\ allocLast.op = "flush" => allocLast'.result # Thrown]_vars

\* an alloc was rejected while a freed entity was outstanding, after an earlier
\* alloc had reused an index that was freed and flushed
C40_Witness ==
    /\ allocLast.op = "alloc"
    /\ allocLast.result = Thrown
    /\ freeLog.unflushed # {}
    /\ \E h \in handed : h.generation > MIN_GENERATION

====
